---- MODULE Spec2Model ----
(***************************************************************************)
(* A model of dataset_generator: the ParquetPartitionedWriter              *)
(* (writers/parquet.py), the pipeline driver write_dataset                 *)
(* (core/pipeline.py) and the batch streams of the bundled generators      *)
(* (generators/*.py).                                                      *)
(*                                                                         *)
(* Each component has its own initial predicate and next-state relation;   *)
(* a component that is not part of a specification stays "off".            *)
(***************************************************************************)
EXTENDS Integers, Sequences, FiniteSets, TLC

VARIABLES
    \* ---- ParquetPartitionedWriter (writers/parquet.py) ----
    partition_counters, \* self._partition_counters: <<table, key>> -> next index
    fs_files,           \* the filesystem behind self._fs: path -> rows of the file
    fs_dirs,            \* folders created by self._fs.makedirs
    fs_log,             \* history: every open(path, "wb") + write_parquet, in order
    w_pc,               \* position of the writer inside write()
    w_call,             \* arguments and progress of the write() call in progress
    w_groups,           \* groups of the current batch not yet persisted
    w_frames,           \* _write_single: frames = list(batches), while collecting
    w_outcome,          \* how each write() call ended: returned or raised
    w_pulled,           \* history: every batch pulled from a batch stream, in order
    w_fed,              \* number of rows the batch streams have supplied so far
    \* ---- write_dataset (core/pipeline.py) ----
    pd_pc,              \* position inside write_dataset
    pd_tables,          \* the tables argument
    pd_selected,        \* selected
    pd_i,               \* the position of the for loop in selected
    pd_locals,          \* batches, schema, partition_spec of the current table
    pd_events,          \* history: the calls write_dataset has made, in order
    \* ---- ECommerceGenerator (generators/ecommerce.py) ----
    ec_pc,              \* "args" before __post_init__, "on" once the instance is
                        \* constructed, "raised" when the constructor raised
    ec_args,            \* the arguments given to the constructor
    ec_self,            \* the fields of the instance after __post_init__
    ec_daily_counts,    \* self._daily_counts
    ec_iters,           \* the iterables batches_for has returned, with their progress
    \* ---- MarketOHLCVGenerator, MarketQuotesGenerator (generators/market_*.py) ----
    mk_pc,              \* "on" once the instance is constructed
    mk_self,            \* the constructor's fields
    mk_last,            \* self._last_close (OHLCV), self._last_mid (quotes)
    mk_iters,           \* the generator iterators batches_for has returned
    \* ---- the DatasetGenerator methods of the five generators ----
    gi_generator,       \* the generator the calls are made on
    gi_calls,           \* history: the calls made, with what each returned
    \* ---- SensorsGenerator (generators/sensors.py) ----
    sn_pc,              \* "on" when sensor processes are part of the run
    sn_procs,           \* the processes: hash salt, generator, batches yielded
    \* ---- two ParquetPartitionedWriter instances, one destination ----
    sd_pc,              \* "on" when the two instances are part of the run
    sd_writers,         \* per instance: its counters, calls made, groups to write
    sd_files,           \* the filesystem under the shared root: path -> rows
    sd_log,             \* history: every file written, by which instance
    \* ---- DeltaLakeWriter (writers/delta.py) ----
    dl_pc,              \* position of the writer inside write()
    dl_table,           \* the Delta table at uri: NoDeltaTable or its batches
    dl_call,            \* mode, batches left and number of the call in progress
    dl_log,             \* history: the calls begun and every write_deltalake
    \* ---- IcebergWriter (writers/iceberg.py) ----
    ic_pc,              \* position of the writer inside write()
    ic_catalog,         \* the tables the catalog holds
    ic_call,            \* arguments and progress of the write() call in progress
    ic_log              \* history: the calls made, the catalog requests of each
                        \* and how it ended

writerVars == <<partition_counters, fs_files, fs_dirs, fs_log, w_pc, w_call,
                w_groups, w_frames, w_outcome, w_pulled, w_fed>>

pipelineVars == <<pd_pc, pd_tables, pd_selected, pd_i, pd_locals, pd_events>>

ecommerceVars == <<ec_pc, ec_args, ec_self, ec_daily_counts, ec_iters>>

marketVars == <<mk_pc, mk_self, mk_last, mk_iters>>

interfaceVars == <<gi_generator, gi_calls>>

sensorsVars == <<sn_pc, sn_procs>>

sharedVars == <<sd_pc, sd_writers, sd_files, sd_log>>

deltaVars == <<dl_pc, dl_table, dl_call, dl_log>>

icebergVars == <<ic_pc, ic_catalog, ic_call, ic_log>>

\* the components added to the five above
moreVars == <<sensorsVars, sharedVars, deltaVars, icebergVars>>

vars == <<writerVars, pipelineVars, ecommerceVars, marketVars, interfaceVars, moreVars>>

\* what the actions of one component leave alone
notWriterVars == <<pipelineVars, ecommerceVars, marketVars, interfaceVars, moreVars>>
notPipelineVars == <<writerVars, ecommerceVars, marketVars, interfaceVars, moreVars>>
notECommerceVars == <<writerVars, pipelineVars, marketVars, interfaceVars, moreVars>>
notMarketVars == <<writerVars, pipelineVars, ecommerceVars, interfaceVars, moreVars>>
notInterfaceVars == <<writerVars, pipelineVars, ecommerceVars, marketVars, moreVars>>
coreVars == <<writerVars, pipelineVars, ecommerceVars, marketVars, interfaceVars>>
notSensorsVars == <<coreVars, sharedVars, deltaVars, icebergVars>>
notSharedVars == <<coreVars, sensorsVars, deltaVars, icebergVars>>
notDeltaVars == <<coreVars, sensorsVars, sharedVars, icebergVars>>
notIcebergVars == <<coreVars, sensorsVars, sharedVars, deltaVars>>

-----------------------------------------------------------------------------
(* Bounds of the model.                                                    *)

\* write() calls per run
MaxCalls == 2
\* rows supplied by all batch streams of a run together
MaxRows == 2
\* length of the tables argument of write_dataset
MaxSelected == 2
\* iterables requested from one generator instance
MaxIterators == 2
\* batches pulled from one traversal of a stream
MaxBatches == 9
\* calls of the DatasetGenerator methods on one generator
MaxInterfaceCalls == 2
\* processes that run a SensorsGenerator
MaxProcesses == 2
\* write() calls on the two writer instances of one destination, together
MaxSharedCalls == 3
\* write() calls on a DeltaLakeWriter
MaxDeltaCalls == 3
\* write() calls on an IcebergWriter
MaxIcebergCalls == 2

-----------------------------------------------------------------------------
(* Generic helpers.                                                        *)

Range(s) == {s[i] : i \in 1..Len(s)}

SeqsUpTo(S, n) == UNION {[1..k -> S] : k \in 0..n}

Max2(a, b) == IF a >= b THEN a ELSE b

Min2(a, b) == IF a <= b THEN a ELSE b

\* f with f[k] set to v, k added to the domain when absent (dict assignment)
DictSet(f, k, v) == [x \in (DOMAIN f) \cup {k} |-> IF x = k THEN v ELSE f[x]]

\* dict.get(k, default)
DictGet(f, k, default) == IF k \in DOMAIN f THEN f[k] ELSE default

RECURSIVE JoinWith(_, _)
\* sep.join(parts)
JoinWith(parts, sep) ==
    IF Len(parts) = 0 THEN ""
    ELSE IF Len(parts) = 1 THEN parts[1]
    ELSE parts[1] \o sep \o JoinWith(Tail(parts), sep)

\* a mutant of Concat: only the last frame is kept
Concat_LastOnly(frames) ==
    IF Len(frames) = 0 THEN <<>> ELSE frames[Len(frames)]

RECURSIVE Concat(_)
\* pl.concat(frames): the rows of the frames, in order
Concat(frames) ==
    IF Len(frames) = 0 THEN <<>> ELSE Head(frames) \o Concat(Tail(frames))

-----------------------------------------------------------------------------
(* Partition values.  A value of a partition column is a Python int, float *)
(* (kept in tenths: 12 is 1.2), bool or str.                               *)

IntV(n) == [t |-> "int", n |-> n, s |-> ""]
FloatV(tenths) == [t |-> "float", n |-> tenths, s |-> ""]
BoolV(b) == [t |-> "bool", n |-> IF b THEN 1 ELSE 0, s |-> ""]
StrV(s) == [t |-> "str", n |-> 0, s |-> s]

\* isinstance(value, (int, float)); bool is a subclass of int
IsIntOrFloat(value) == value.t \in {"int", "float", "bool"}

\* int(value): a float is truncated toward zero
PyInt(value) ==
    IF value.t = "float"
    THEN IF value.n >= 0 THEN value.n \div 10 ELSE -((-value.n) \div 10)
    ELSE value.n

\* f"{n:02d}"
Fmt02d(n) == IF 0 <= n /\ n < 10 THEN "0" \o ToString(n) ELSE ToString(n)

\* f"{n}"
FmtInt(n) == ToString(n)

\* f"{idx:05d}" for idx >= 0
Fmt05d(idx) ==
    IF idx < 10 THEN "0000" \o ToString(idx)
    ELSE IF idx < 100 THEN "000" \o ToString(idx)
    ELSE IF idx < 1000 THEN "00" \o ToString(idx)
    ELSE IF idx < 10000 THEN "0" \o ToString(idx)
    ELSE ToString(idx)

\* a mutant of PaddedColumns: day is left unpadded
PaddedColumns_MonthOnly == {"month"}

\* the columns whose integer values are zero-padded
PaddedColumns == {"month", "day"}

\* one element of parts, parquet.py lines 64-71
Segment(col, value) ==
    IF IsIntOrFloat(value)
    THEN IF col \in PaddedColumns
         THEN col \o "=" \o Fmt02d(PyInt(value))
         ELSE col \o "=" \o FmtInt(PyInt(value))
    ELSE col \o "=" \o value.s

\* parts, for the columns of the partition spec zipped with the key
Parts(columns, key) ==
    [i \in 1..Min2(Len(columns), Len(key)) |-> Segment(columns[i], key[i])]

\* self._root
Root == "root"

\* folder = f"{self._root}/{table}/" + "/".join(parts)
Folder(table, columns, key) ==
    Root \o "/" \o table \o "/" \o JoinWith(Parts(columns, key), "/")

\* path = f"{folder}/part-{idx:05d}.parquet"
PartPath(folder, idx) == folder \o "/part-" \o Fmt05d(idx) \o ".parquet"

\* path = f"{self._root}/{table}/{table}.parquet"
SinglePath(table) == Root \o "/" \o table \o "/" \o table \o ".parquet"

\* path.rsplit("/", 1)[0] of SinglePath(table)
SingleParent(table) == Root \o "/" \o table

-----------------------------------------------------------------------------
(* Inputs of the writer: tables, their partition specs and the rows the    *)
(* batch streams can supply.  Each partition column has one type, as in a  *)
(* polars DataFrame.                                                       *)

\* partition_spec = None
NoSpec == [none |-> TRUE, columns |-> <<>>]

\* PartitionSpec(columns), core/interfaces.py
PartitionSpec(columns) == [none |-> FALSE, columns |-> columns]

\* a mutant of Truthy: a PartitionSpec is as true as its columns tuple
Truthy_AsColumns(partition_spec) ==
    ~partition_spec.none /\ Len(partition_spec.columns) > 0

\* bool(partition_spec): None is false, a PartitionSpec instance (a dataclass
\* without __bool__ or __len__) is true
Truthy(partition_spec) == ~partition_spec.none

WriterTables == {"orders", "readings", "events", "customers", "snapshots"}

\* the partition spec handed to write() for each table
SpecOf(table) ==
    CASE table = "orders" -> PartitionSpec(<<"year", "month">>)
      [] table = "readings" -> PartitionSpec(<<"level">>)
      [] table = "events" -> PartitionSpec(<<"kind", "day", "active">>)
      [] table = "snapshots" -> PartitionSpec(<<>>)
      [] OTHER -> NoSpec

\* the partition column values that occur in the rows of each table
KeysOf(table) ==
    CASE table = "orders" ->
            {<<IntV(2023), IntV(3)>>, <<IntV(2023), IntV(12)>>}
      [] table = "readings" ->
            {<<FloatV(12)>>, <<FloatV(15)>>}
      [] table = "events" ->
            {<<StrV("click"), IntV(7), BoolV(TRUE)>>,
             <<StrV("view"), IntV(7), BoolV(FALSE)>>}
      [] OTHER -> {<<>>}

\* a batch: rows in order, each with its partition values and an identity
MakeBatch(keys, first_id) ==
    [i \in 1..Len(keys) |-> [key |-> keys[i], id |-> first_id + i - 1]]

\* the non-empty batches a stream of the table can supply next
NextBatches(table, room, first_id) ==
    {MakeBatch(keys, first_id) : keys \in SeqsUpTo(KeysOf(table), room) \ {<<>>}}

\* errors the filesystem can raise
FsErrors == {"OSError", "PermissionError"}

-----------------------------------------------------------------------------
(* batch.group_by(columns, maintain_order=True)                            *)

RECURSIVE FirstSeen(_, _)
\* the distinct keys of the rows, in the order of their first occurrence
FirstSeen(rows, seen) ==
    IF Len(rows) = 0 THEN <<>>
    ELSE IF Head(rows).key \in seen THEN FirstSeen(Tail(rows), seen)
    ELSE <<Head(rows).key>> \o FirstSeen(Tail(rows), seen \cup {Head(rows).key})

\* the rows of one key, in input order
RowsOf(batch, key) == SelectSeq(batch, LAMBDA r : r.key = key)

\* the key polars hands out: a scalar for a single column, a tuple otherwise
PolarsKey(key) ==
    [shape |-> IF Len(key) = 1 THEN "scalar" ELSE "tuple", items |-> key]

\* a mutant of GroupBy: every row is a group of its own
GroupBy_PerRow(batch) ==
    [i \in 1..Len(batch) |-> [key |-> PolarsKey(batch[i].key), subdf |-> <<batch[i]>>]]

GroupBy(batch) ==
    LET keys == FirstSeen(batch, {})
    IN  [i \in 1..Len(keys) |->
            [key |-> PolarsKey(keys[i]), subdf |-> RowsOf(batch, keys[i])]]

\* _normalise_partition_key: a tuple as it is, a list as a tuple, a scalar as
\* a one-element tuple
NormalisePartitionKey(key) == key.items

\* equality and hash of a value inside a dict key: 1 == 1.0 == True
DictValue(value) ==
    IF IsIntOrFloat(value)
    THEN [t |-> "num", n |-> IF value.t = "float" THEN value.n ELSE 10 * value.n,
          s |-> ""]
    ELSE value

\* the key of self._partition_counters[table]
DictKey(key_tuple) == [i \in 1..Len(key_tuple) |-> DictValue(key_tuple[i])]

-----------------------------------------------------------------------------
(* ParquetPartitionedWriter                                                *)

InitWriter ==
    /\ partition_counters = <<>>
    /\ fs_files = <<>>
    /\ fs_dirs = {}
    /\ fs_log = <<>>
    /\ w_pc = "ready"
    /\ w_call = [n |-> 0, table |-> "", spec |-> NoSpec, batch |-> 0,
                 counters0 |-> <<>>, log0 |-> 0]
    /\ w_groups = <<>>
    /\ w_frames = <<>>
    /\ w_outcome = <<>>
    /\ w_pulled = <<>>
    /\ w_fed = 0

\* the regime write() selects, line 37
Regime(partition_spec) == IF Truthy(partition_spec) THEN "fact" ELSE "dimension"

\* the result of a call that returned
Returned ==
    [result |-> "returned", table |-> w_call.table, regime |-> Regime(w_call.spec),
     fault |-> "", raised |-> "", key |-> <<>>, idx |-> 0, batch |-> 0, left |-> 0]

\* an error raised inside _write_partitioned: no handler, it leaves write()
\* as it was raised
Propagate(err) == err

\* write(): lines 28-40
Write(table) ==
    /\ w_pc = "ready"
    /\ Len(w_outcome) < MaxCalls
    /\ w_call' = [n |-> Len(w_outcome) + 1, table |-> table, spec |-> SpecOf(table),
                  batch |-> 0, counters0 |-> partition_counters,
                  log0 |-> Len(fs_log)]
    /\ w_pc' = IF Regime(SpecOf(table)) = "fact" THEN "partitioned" ELSE "single"
    /\ w_groups' = <<>>
    /\ w_frames' = <<>>
    /\ UNCHANGED <<partition_counters, fs_files, fs_dirs, fs_log, w_outcome,
                   w_pulled, w_fed>>
    /\ UNCHANGED notWriterVars

\* _write_partitioned, line 58-59: the loop pulls the next batch and groups it
PullBatch ==
    /\ w_pc = "partitioned"
    /\ Len(w_call.spec.columns) > 0
    /\ w_fed < MaxRows
    /\ \E batch \in NextBatches(w_call.table, MaxRows - w_fed, w_fed + 1) :
          /\ w_groups' = GroupBy(batch)
          /\ w_pulled' = Append(w_pulled, [call |-> w_call.n,
                                            batch |-> w_call.batch + 1, rows |-> batch])
          /\ w_fed' = w_fed + Len(batch)
    /\ w_call' = [w_call EXCEPT !.batch = @ + 1]
    /\ w_pc' = "groups"
    /\ UNCHANGED <<partition_counters, fs_files, fs_dirs, fs_log, w_frames, w_outcome>>
    /\ UNCHANGED notWriterVars

\* errors polars can raise
PolarsErrors == {"ComputeError"}

\* _write_partitioned, lines 58-60, for a PartitionSpec without columns:
\* polars requires at least one key in a group_by and raises when the groups
\* of group_by([]) are asked for
GroupByFails(err) ==
    /\ w_pc = "partitioned"
    /\ Len(w_call.spec.columns) = 0
    /\ w_fed < MaxRows
    /\ \E batch \in NextBatches(w_call.table, MaxRows - w_fed, w_fed + 1) :
          /\ w_pulled' = Append(w_pulled, [call |-> w_call.n,
                                            batch |-> w_call.batch + 1, rows |-> batch])
          /\ w_fed' = w_fed + Len(batch)
    /\ w_call' = [w_call EXCEPT !.batch = @ + 1]
    /\ w_outcome' = Append(w_outcome,
          [result |-> "raised", table |-> w_call.table, regime |-> "fact",
           fault |-> err, raised |-> Propagate(err), key |-> <<>>, idx |-> 0,
           batch |-> w_call.batch + 1, left |-> 1])
    /\ w_groups' = <<>>
    /\ w_pc' = "ready"
    /\ UNCHANGED <<partition_counters, fs_files, fs_dirs, fs_log, w_frames>>
    /\ UNCHANGED notWriterVars

\* _write_partitioned, line 58: the stream is exhausted, write() returns
StreamEnd ==
    /\ w_pc = "partitioned"
    /\ w_outcome' = Append(w_outcome, Returned)
    /\ w_pc' = "ready"
    /\ UNCHANGED <<partition_counters, fs_files, fs_dirs, fs_log, w_call,
                   w_groups, w_frames, w_pulled, w_fed>>
    /\ UNCHANGED notWriterVars

\* the entry of fs_log for one written file
LogEntry(regime, table, batch, key, idx, parts, folder, path, rows) ==
    [regime |-> regime, call |-> w_call.n, batch |-> batch, table |-> table,
     key |-> key,
     idx |-> idx, parts |-> parts, folder |-> folder, path |-> path,
     rows |-> rows]

\* a mutant of NextIndex: the counter is stored back without being advanced
NextIndex_NotAdvanced(idx) == idx

\* the counter after a group is persisted, line 79
NextIndex(idx) == idx + 1

\* a mutant of LoopPosition: the outer loop goes on after the first group
LoopPosition_FirstGroupOnly(groups) == "partitioned"

\* where _write_partitioned stands after a group: in the inner for loop, line
\* 60, while the batch has groups left, else back at the outer for, line 58
LoopPosition(groups) == IF Len(groups) = 0 THEN "partitioned" ELSE "groups"

\* _write_partitioned, lines 60-79: one group is persisted
PersistGroup ==
    /\ w_pc = "groups"
    /\ LET table == w_call.table
           columns == w_call.spec.columns
           key_tuple == NormalisePartitionKey(Head(w_groups).key)
           subdf == Head(w_groups).subdf
           parts == Parts(columns, key_tuple)
           folder == Folder(table, columns, key_tuple)
           idx == DictGet(partition_counters, <<table, DictKey(key_tuple)>>, 0)
           path == PartPath(folder, idx)
       IN  /\ fs_dirs' = fs_dirs \cup {folder}
           /\ fs_files' = DictSet(fs_files, path, subdf)
           /\ fs_log' = Append(fs_log, LogEntry("fact", table, w_call.batch,
                                     key_tuple, idx, parts, folder, path, subdf))
           /\ partition_counters' =
                 DictSet(partition_counters, <<table, DictKey(key_tuple)>>,
                         NextIndex(idx))
    /\ w_groups' = Tail(w_groups)
    /\ w_pc' = LoopPosition(Tail(w_groups))
    /\ UNCHANGED <<w_call, w_frames, w_outcome, w_pulled, w_fed>>
    /\ UNCHANGED notWriterVars

\* _write_partitioned, lines 73-78: makedirs, open or write_parquet raises
PersistGroupFails(err, stage) ==
    /\ w_pc = "groups"
    /\ LET table == w_call.table
           columns == w_call.spec.columns
           key_tuple == NormalisePartitionKey(Head(w_groups).key)
           subdf == Head(w_groups).subdf
           folder == Folder(table, columns, key_tuple)
           idx == DictGet(partition_counters, <<table, DictKey(key_tuple)>>, 0)
           path == PartPath(folder, idx)
       IN  /\ stage = "makedirs" => folder \notin fs_dirs
           /\ fs_dirs' = IF stage = "makedirs" THEN fs_dirs ELSE fs_dirs \cup {folder}
           \* open(path, "wb") truncates; a failing write_parquet leaves a part
           /\ \/ /\ stage \in {"makedirs", "open"}
                 /\ fs_files' = fs_files
              \/ /\ stage = "write_parquet"
                 /\ \E n \in 0..(Len(subdf) - 1) :
                       fs_files' = DictSet(fs_files, path, SubSeq(subdf, 1, n))
           /\ w_outcome' = Append(w_outcome,
                 [result |-> "raised", table |-> table, regime |-> "fact",
                  fault |-> err, raised |-> Propagate(err), key |-> key_tuple, idx |-> idx, batch |-> w_call.batch,
                  left |-> Len(w_groups)])
    /\ w_groups' = <<>>
    /\ w_pc' = "ready"
    /\ UNCHANGED <<partition_counters, fs_log, w_call, w_frames, w_pulled, w_fed>>
    /\ UNCHANGED notWriterVars

\* _write_single, line 43: list(batches) pulls one more batch
PullFrame ==
    /\ w_pc = "single"
    /\ w_fed < MaxRows
    /\ \E batch \in NextBatches(w_call.table, MaxRows - w_fed, w_fed + 1) :
          /\ w_frames' = Append(w_frames, batch)
          /\ w_pulled' = Append(w_pulled, [call |-> w_call.n,
                                            batch |-> w_call.batch + 1, rows |-> batch])
          /\ w_fed' = w_fed + Len(batch)
    /\ w_call' = [w_call EXCEPT !.batch = @ + 1]
    /\ UNCHANGED <<partition_counters, fs_files, fs_dirs, fs_log, w_pc,
                   w_groups, w_outcome>>
    /\ UNCHANGED notWriterVars

\* _write_single, lines 44-50: the stream is exhausted
WriteSingle ==
    /\ w_pc = "single"
    /\ IF Len(w_frames) = 0
       THEN UNCHANGED <<fs_files, fs_dirs, fs_log>>
       ELSE LET table == w_call.table
                df == Concat(w_frames)
                path == SinglePath(table)
            IN  /\ fs_dirs' = fs_dirs \cup {SingleParent(table)}
                /\ fs_files' = DictSet(fs_files, path, df)
                /\ fs_log' = Append(fs_log, LogEntry("dimension", table, w_call.batch,
                                       <<>>, 0, <<>>, SingleParent(table), path, df))
    /\ w_outcome' = Append(w_outcome, Returned)
    /\ w_frames' = <<>>
    /\ w_pc' = "ready"
    /\ UNCHANGED <<partition_counters, w_call, w_groups, w_pulled, w_fed>>
    /\ UNCHANGED notWriterVars

NextWriter ==
    \/ \E table \in WriterTables : Write(table)
    \/ PullBatch
    \/ \E err \in PolarsErrors : GroupByFails(err)
    \/ StreamEnd
    \/ PersistGroup
    \/ \E err \in FsErrors, stage \in {"makedirs", "open", "write_parquet"} :
          PersistGroupFails(err, stage)
    \/ PullFrame
    \/ WriteSingle

\* the writer is not part of the run
WriterOff ==
    /\ partition_counters = <<>>
    /\ fs_files = <<>>
    /\ fs_dirs = {}
    /\ fs_log = <<>>
    /\ w_pc = "off"
    /\ w_call = [n |-> 0, table |-> "", spec |-> NoSpec, batch |-> 0,
                 counters0 |-> <<>>, log0 |-> 0]
    /\ w_groups = <<>>
    /\ w_frames = <<>>
    /\ w_outcome = <<>>
    /\ w_pulled = <<>>
    /\ w_fed = 0

-----------------------------------------------------------------------------
(* write_dataset (core/pipeline.py), driving a generator and a writer      *)
(* through the GeneratorBase and TableWriter protocols.                    *)

\* generator.tables(), ECommerceGenerator
GenTables == <<"customers", "products", "orders", "order_items">>

\* table names write_dataset can be asked for: the generator's and one it
\* does not know
TableNames == Range(GenTables) \cup {"unknown"}

\* the tables argument: None, or a sequence of names
NoTables == [none |-> TRUE, seq |-> <<>>]
TablesArg(seq) == [none |-> FALSE, seq |-> seq]

\* bool(tables): None and the empty sequence are false
TablesTruthy(tables) == ~tables.none /\ Len(tables.seq) > 0

\* selected = tables or generator.tables(), line 26
Selected(tables) == IF TablesTruthy(tables) THEN tables.seq ELSE GenTables

\* generator.batches_for(table): the stream of the table
GenBatchesFor(table) == [stream |-> table]

\* generator.schema_for(table)
GenSchemaFor(table) == [schema |-> table]

\* generator.partition_spec_for(table), ECommerceGenerator with the default
\* orders_partitioning
GenPartitionSpecFor(table) ==
    IF table \in {"orders", "order_items"}
    THEN PartitionSpec(<<"year", "month">>)
    ELSE NoSpec

NoLocals == [batches |-> [stream |-> ""], schema |-> [schema |-> ""],
             partition_spec |-> NoSpec]

PipelineOff ==
    /\ pd_pc = "off"
    /\ pd_tables = NoTables
    /\ pd_selected = <<>>
    /\ pd_i = 0
    /\ pd_locals = NoLocals
    /\ pd_events = <<>>

InitPipeline ==
    /\ pd_pc = "idle"
    /\ pd_tables = NoTables
    /\ pd_selected = <<>>
    /\ pd_i = 0
    /\ pd_locals = NoLocals
    /\ pd_events = <<>>

\* one call made by write_dataset: its kind, the position of the loop, the
\* table, and the values it returned (generator calls) or received (write)
Event(kind, table, args) == [kind |-> kind, i |-> pd_i, table |-> table, args |-> args]

\* a mutant of NextTable: the loop skips a table
NextTable_Skip(i) == i + 2

\* the for loop moves on to the next element of selected
NextTable(i) == i + 1

\* write_dataset is called, line 26
WriteDataset(tables) ==
    /\ pd_pc = "idle"
    /\ pd_tables' = tables
    /\ pd_selected' = Selected(tables)
    /\ pd_i' = 1
    /\ pd_pc' = "for"
    /\ UNCHANGED <<pd_locals, pd_events>>
    /\ UNCHANGED notPipelineVars

\* line 27: selected is exhausted, write_dataset returns
LoopEnd ==
    /\ pd_pc = "for"
    /\ pd_i > Len(pd_selected)
    /\ pd_pc' = "done"
    /\ UNCHANGED <<pd_tables, pd_selected, pd_i, pd_locals, pd_events>>
    /\ UNCHANGED notPipelineVars

\* line 28: batches = generator.batches_for(table); an unknown name raises
BatchesFor ==
    /\ pd_pc = "for"
    /\ pd_i <= Len(pd_selected)
    /\ LET table == pd_selected[pd_i]
       IN  IF table \in Range(GenTables)
           THEN /\ pd_locals' = [NoLocals EXCEPT !.batches = GenBatchesFor(table)]
                /\ pd_events' = Append(pd_events, Event("batches_for", table, pd_locals'))
                /\ pd_pc' = "schema"
           ELSE /\ pd_locals' = NoLocals
                /\ pd_events' = Append(pd_events, Event("raise", table, NoLocals))
                /\ pd_pc' = "raised"
    /\ UNCHANGED <<pd_tables, pd_selected, pd_i>>
    /\ UNCHANGED notPipelineVars

\* line 29: schema = generator.schema_for(table)
SchemaFor ==
    /\ pd_pc = "schema"
    /\ LET table == pd_selected[pd_i]
       IN  /\ pd_locals' = [pd_locals EXCEPT !.schema = GenSchemaFor(table)]
           /\ pd_events' = Append(pd_events, Event("schema_for", table, pd_locals'))
    /\ pd_pc' = "partition_spec"
    /\ UNCHANGED <<pd_tables, pd_selected, pd_i>>
    /\ UNCHANGED notPipelineVars

\* line 30: partition_spec = generator.partition_spec_for(table)
PartitionSpecFor ==
    /\ pd_pc = "partition_spec"
    /\ LET table == pd_selected[pd_i]
       IN  /\ pd_locals' = [pd_locals EXCEPT !.partition_spec = GenPartitionSpecFor(table)]
           /\ pd_events' = Append(pd_events,
                                   Event("partition_spec_for", table, pd_locals'))
    /\ pd_pc' = "write"
    /\ UNCHANGED <<pd_tables, pd_selected, pd_i>>
    /\ UNCHANGED notPipelineVars

\* lines 31-36: writer.write(table, batches, schema=..., partition_spec=...)
WriterWrite ==
    /\ pd_pc = "write"
    /\ pd_events' = Append(pd_events, Event("write", pd_selected[pd_i], pd_locals))
    /\ pd_pc' = "writing"
    /\ UNCHANGED <<pd_tables, pd_selected, pd_i, pd_locals>>
    /\ UNCHANGED notPipelineVars

\* writer.write returns: the loop goes on
WriterWriteReturns ==
    /\ pd_pc = "writing"
    /\ pd_events' = Append(pd_events, Event("write_return", pd_selected[pd_i], NoLocals))
    /\ pd_i' = NextTable(pd_i)
    /\ pd_locals' = NoLocals
    /\ pd_pc' = "for"
    /\ UNCHANGED <<pd_tables, pd_selected>>
    /\ UNCHANGED notPipelineVars

\* writer.write raises: no handler, write_dataset ends
WriterWriteRaises ==
    /\ pd_pc = "writing"
    /\ pd_events' = Append(pd_events, Event("raise", pd_selected[pd_i], NoLocals))
    /\ pd_pc' = "raised"
    /\ UNCHANGED <<pd_tables, pd_selected, pd_i, pd_locals>>
    /\ UNCHANGED notPipelineVars

NextPipeline ==
    \/ WriteDataset(NoTables)
    \/ \E seq \in SeqsUpTo(TableNames, MaxSelected) : WriteDataset(TablesArg(seq))
    \/ LoopEnd
    \/ BatchesFor
    \/ SchemaFor
    \/ PartitionSpecFor
    \/ WriterWrite
    \/ WriterWriteReturns
    \/ WriterWriteRaises

-----------------------------------------------------------------------------
(* Dates, and the pseudo-random source.                                    *)

Date(y, m, d) == [year |-> y, month |-> m, day |-> d]

\* the number of days of a month (2023 and 2024)
DaysInMonth(y, m) ==
    IF m = 2 THEN (IF y % 4 = 0 THEN 29 ELSE 28)
    ELSE IF m \in {4, 6, 9, 11} THEN 30 ELSE 31

\* current += timedelta(days=1)
NextDay(date) ==
    IF date.day < DaysInMonth(date.year, date.month)
    THEN Date(date.year, date.month, date.day + 1)
    ELSE IF date.month < 12 THEN Date(date.year, date.month + 1, 1)
    ELSE Date(date.year + 1, 1, 1)

\* a mutant of DateLE: current < end, the end date left out
DateLE_Strict(a, b) ==
    \/ a.year < b.year
    \/ a.year = b.year /\ a.month < b.month
    \/ a.year = b.year /\ a.month = b.month /\ a.day < b.day

\* current <= end
DateLE(a, b) ==
    \/ a.year < b.year
    \/ a.year = b.year /\ a.month < b.month
    \/ a.year = b.year /\ a.month = b.month /\ a.day <= b.day

RECURSIVE DateRange(_, _)
\* _date_range(start, end): the days from start to end, both included
DateRange(start, end) ==
    IF DateLE(start, end) THEN <<start>> \o DateRange(NextDay(start), end) ELSE <<>>

\* np.random.default_rng(seed): a generator is its seed and the number of
\* values drawn from it; equal seeds give equal generators
DefaultRng(seed) == [seed |-> seed, drawn |-> 0]

\* the k-th value the generator gives from where it stands
RngValue(rng, k) ==
    LET n == rng.drawn + k
    IN  ((rng.seed % 16) * (2 * n + 1) + 5 * n + (n * n) \div 3) % 16

\* no generator yet
NoRng == [seed |-> 0, drawn |-> 0]

\* the generator after n draws
RngSkip(rng, n) == [rng EXCEPT !.drawn = @ + Max2(n, 0)]

\* the n values of a draw of size n
RngDraws(rng, n) == [k \in 1..Max2(n, 0) |-> RngValue(rng, k)]

-----------------------------------------------------------------------------
(* ECommerceGenerator                                                      *)

\* the seed offsets of the streams
VolumeSeedOffset == 505
CustomersSeedOffset == 101
ProductsSeedOffset == 202
OrdersSeedOffset == 303
ItemsSeedOffset == 404

\* the fields of an instance; None arguments of the range and normal modes
\* are given, so that _validate_configuration derives nothing
\* orders_std is a float and is kept in tenths: 10 is 1.0
ECommerceFields(seed, target, part, mode, floor) ==
    [seed |-> seed, n_customers |-> 2, n_products |-> 2,
     orders_per_day |-> 3, order_items_mean |-> 1,
     start_date |-> Date(2023, 1, 31), end_date |-> Date(2023, 2, 1),
     file_rows_target |-> target, orders_partitioning |-> part,
     orders_mode |-> mode, orders_min |-> 1, orders_max |-> 3,
     orders_mean |-> 2, orders_std |-> 10, orders_floor |-> floor]

\* the instances the model constructs: arguments the constructor accepts;
\* file_rows_target is not validated, and orders_floor only for its sign
ECommerceConfigs ==
    {ECommerceFields(seed, target, part, mode, 0) :
        seed \in {42, 43}, target \in {1, 2},
        part \in {"ym", "yearmonth"}, mode \in {"fixed", "range", "normal"}}
    \cup {ECommerceFields(42, 2, "ym", mode, 4) : mode \in {"fixed", "range", "normal"}}
    \cup {ECommerceFields(42, target, "ym", "fixed", 0) : target \in {-1, 0}}

\* tables()
ECommerceTables == <<"customers", "products", "orders", "order_items">>

\* _resolve_partition_columns
ResolvePartitionColumns(orders_partitioning) ==
    IF orders_partitioning = "ymd" THEN <<"year", "month", "day">>
    ELSE IF orders_partitioning = "yearmonth" THEN <<"yearmonth">>
    ELSE <<"year", "month">>

\* a mutant of SampleOrdersForDay: the range draw reaches orders_max + 1
SampleOrdersForDay_PastMax(self, drawn) ==
    IF self.orders_mode = "range"
    THEN Max2(self.orders_floor,
              self.orders_min + (drawn % (self.orders_max + 2 - self.orders_min)))
    ELSE Max2(self.orders_floor, self.orders_per_day)

\* int(round(x)) of a float given in tenths: to the nearest integer, a half
\* to the even one
PyRound(tenths) ==
    LET whole == tenths \div 10
        rest == tenths % 10
    IN  IF rest < 5 THEN whole
        ELSE IF rest > 5 THEN whole + 1
        ELSE IF whole % 2 = 0 THEN whole ELSE whole + 1

\* _sample_orders_for_day: the count of one day, from the value drawn
SampleOrdersForDay(self, drawn) ==
    IF self.orders_mode = "fixed"
    THEN Max2(self.orders_floor, self.orders_per_day)
    ELSE IF self.orders_mode = "range"
    THEN Max2(self.orders_floor,
              self.orders_min + (drawn % (self.orders_max + 1 - self.orders_min)))
    ELSE Max2(self.orders_floor,
              PyRound(10 * self.orders_mean + self.orders_std * ((drawn % 5) - 2)))

\* the fixed mode draws nothing
DrawsPerDay(self) == IF self.orders_mode = "fixed" THEN 0 ELSE 1

\* _compute_daily_counts: one (day, count) per day of the range
ComputeDailyCounts(self) ==
    LET days == DateRange(self.start_date, self.end_date)
        rng == DefaultRng(self.seed + VolumeSeedOffset)
    IN  [k \in 1..Len(days) |->
            [day |-> days[k],
             count |-> SampleOrdersForDay(self, RngValue(rng, k * DrawsPerDay(self)))]]

\* the partition columns of a row of the given day, lines 372-383
PartitionValues(columns, day) ==
    [k \in 1..Len(columns) |->
        IF columns[k] = "year" THEN IntV(day.year)
        ELSE IF columns[k] = "month" THEN IntV(day.month)
        ELSE IF columns[k] = "day" THEN IntV(day.day)
        ELSE StrV(ToString(day.year) \o "-" \o Fmt02d(day.month))]

\* _generate_customers
GenerateCustomers(self) ==
    LET rng == DefaultRng(self.seed + CustomersSeedOffset)
        n == self.n_customers
        signup == RngDraws(rng, n)
        country == RngDraws(RngSkip(rng, n), n)
        vip == RngDraws(RngSkip(rng, 2 * n), n)
    IN  [k \in 1..n |-> [customer_id |-> k, signup_date |-> signup[k],
                         country |-> country[k] % 10, is_vip |-> vip[k] = 0]]

\* _generate_products
GenerateProducts(self) ==
    LET rng == DefaultRng(self.seed + ProductsSeedOffset)
        n == self.n_products
        price == RngDraws(rng, n)
        discount == RngDraws(RngSkip(rng, n), n)
        category == RngDraws(RngSkip(rng, 2 * n), n)
        active == RngDraws(RngSkip(rng, 3 * n), n)
    IN  [k \in 1..n |-> [product_id |-> k, category |-> category[k] % 10,
                         price |-> price[k], discount |-> discount[k] % 7,
                         active |-> active[k] # 0]]

\* the draws _order_batch makes for n_orders rows
OrderBatchDraws(n_orders) == 4 * Max2(n_orders, 0)

\* _order_batch
OrderBatch(self, columns, rng, day, start_id, n_orders) ==
    LET n == Max2(n_orders, 0)
        cust == RngDraws(rng, n)
        hours == RngDraws(RngSkip(rng, n), n)
        statuses == RngDraws(RngSkip(rng, 2 * n), n)
        amounts == RngDraws(RngSkip(rng, 3 * n), n)
    IN  [k \in 1..n |->
            [order_id |-> start_id + k - 1,
             customer_id |-> 1 + (cust[k] % self.n_customers),
             order_date |-> day,
             hour_of_day |-> hours[k],
             status |-> <<"completed", "returned", "cancelled">>[1 + (statuses[k] % 3)],
             amount |-> Max2(5, amounts[k]),
             partition |-> PartitionValues(columns, day)]]

\* a mutant of ItemsPerOrder: the Poisson draw as drawn, zero included
ItemsPerOrder_Unclamped(self, drawn) == self.order_items_mean + (drawn % 3) - 1

\* items_per_order: a Poisson draw per order, at least 1
ItemsPerOrder(self, drawn) == Max2(1, self.order_items_mean + (drawn % 3) - 1)

RECURSIVE ItemOwners(_, _)
\* np.repeat(order rows, items_per_order)
ItemOwners(orders, counts) ==
    IF Len(orders) = 0 THEN <<>>
    ELSE [k \in 1..counts[1] |-> Head(orders)] \o ItemOwners(Tail(orders), Tail(counts))

\* the draws _order_items_for_orders makes
OrderItemsDraws(n_orders, total_items) == n_orders + 2 * total_items

\* _order_items_for_orders; the join gives each item the partition columns of
\* its order
OrderItemsForOrders(self, rng, orders_df) ==
    LET n == Len(orders_df)
        poisson == RngDraws(rng, n)
        items_per_order == [k \in 1..n |-> ItemsPerOrder(self, poisson[k])]
        owners == ItemOwners(orders_df, items_per_order)
        total_items == Len(owners)
        product_ids == RngDraws(RngSkip(rng, n), total_items)
        qty == RngDraws(RngSkip(rng, n + total_items), total_items)
    IN  [k \in 1..total_items |->
            [order_item_id |-> k,
             order_id |-> owners[k].order_id,
             product_id |-> 1 + (product_ids[k] % self.n_products),
             qty |-> 1 + (qty[k] % 5),
             partition |-> owners[k].partition]]

\* the instance is not part of the run
ECommerceOff ==
    /\ ec_pc = "off"
    /\ ec_args = [seed |-> 0]
    /\ ec_self = [seed |-> 0]
    /\ ec_daily_counts = <<>>
    /\ ec_iters = <<>>

\* an Optional[int] argument: None, or a number
None == [none |-> TRUE, v |-> 0]
Some(v) == [none |-> FALSE, v |-> v]

\* the constructor call that gives the instance with these fields
ArgsOf(config) ==
    [config EXCEPT !.orders_min = Some(@), !.orders_max = Some(@),
                   !.orders_mean = Some(@), !.orders_std = Some(@)]

\* the orders_per_day values of the model whose double product with 0.7 is
\* just below the whole number 7n/10 (90 * 0.7 is 62.99999999999999)
BelowWhole == {90}

\* int(n * 0.7), int(n * 1.3): the double product truncated towards zero
IntOfTenths(n, num) ==
    IF n >= 0
    THEN ((n * num) \div 10) - (IF num = 7 /\ n \in BelowWhole THEN 1 ELSE 0)
    ELSE 0 - (((0 - n) * num) \div 10)

\* start_date > end_date
DateGT(a, b) == ~DateLE(a, b)

\* a mutant of DerivedMin: the derived value is not raised to orders_floor
DerivedMin_Unfloored(args) ==
    IF args.orders_min.none
    THEN IntOfTenths(args.orders_per_day, 7)
    ELSE args.orders_min.v

\* orders_min and orders_max as _validate_configuration leaves them in range
\* mode, lines 176-181
DerivedMin(args) ==
    IF args.orders_min.none
    THEN Max2(args.orders_floor, IntOfTenths(args.orders_per_day, 7))
    ELSE args.orders_min.v

DerivedMax(args) ==
    IF args.orders_max.none
    THEN Max2(DerivedMin(args), IntOfTenths(args.orders_per_day, 13))
    ELSE args.orders_max.v

\* orders_mean and orders_std as _validate_configuration leaves them in
\* normal mode, lines 186-189; orders_std in tenths
DerivedMean(args) ==
    IF args.orders_mean.none THEN args.orders_per_day ELSE args.orders_mean.v

DerivedStd(args) ==
    IF args.orders_std.none
    THEN Max2(10, args.orders_per_day)
    ELSE args.orders_std.v

\* a mutant of ValidateConfiguration: the check of orders_floor is missing
ValidateConfiguration_NoFloorCheck(args) ==
    IF DateGT(args.start_date, args.end_date) THEN "ValueError"
    ELSE IF args.orders_mode = "fixed" /\ args.orders_per_day < 0 THEN "ValueError"
    ELSE IF args.orders_mode = "range" /\ (DerivedMin(args) < 0 \/ DerivedMax(args) < 0)
    THEN "ValueError"
    ELSE IF args.orders_mode = "range" /\ DerivedMin(args) > DerivedMax(args)
    THEN "ValueError"
    ELSE IF args.orders_mode = "normal" /\ DerivedStd(args) < 0 THEN "ValueError"
    ELSE IF args.orders_mode \notin {"fixed", "range", "normal"} THEN "ValueError"
    ELSE "ok"

\* _validate_configuration: "ok", or the error it raises
ValidateConfiguration(args) ==
    IF DateGT(args.start_date, args.end_date) THEN "ValueError"
    ELSE IF args.orders_mode = "fixed" /\ args.orders_per_day < 0 THEN "ValueError"
    ELSE IF args.orders_mode = "range" /\ (DerivedMin(args) < 0 \/ DerivedMax(args) < 0)
    THEN "ValueError"
    ELSE IF args.orders_mode = "range" /\ DerivedMin(args) > DerivedMax(args)
    THEN "ValueError"
    ELSE IF args.orders_mode = "normal" /\ DerivedStd(args) < 0 THEN "ValueError"
    ELSE IF args.orders_mode \notin {"fixed", "range", "normal"} THEN "ValueError"
    ELSE IF args.orders_floor < 0 THEN "ValueError"
    ELSE "ok"

\* the fields of the instance once _validate_configuration has returned: the
\* parameters of the selected mode as given or derived; those of the other
\* modes are never read and are kept as 0 when None
ValidatedFields(args) ==
    [args EXCEPT
        !.orders_min = IF args.orders_mode = "range" THEN DerivedMin(args) ELSE @.v,
        !.orders_max = IF args.orders_mode = "range" THEN DerivedMax(args) ELSE @.v,
        !.orders_mean = IF args.orders_mode = "normal" THEN DerivedMean(args) ELSE @.v,
        !.orders_std = IF args.orders_mode = "normal" THEN DerivedStd(args) ELSE @.v]

\* a valid constructor call of each mode, the unrecognised mode included
BaseArgs(mode) == ArgsOf(ECommerceFields(42, 2, "ym", mode, 0))

\* the call with one argument changed
ArgsVariants(a) ==
    {a,
     [a EXCEPT !.start_date = Date(2023, 2, 1), !.end_date = Date(2023, 1, 31)],
     [a EXCEPT !.orders_floor = -1],
     [a EXCEPT !.orders_per_day = -1],
     [a EXCEPT !.orders_min = Some(-1)],
     [a EXCEPT !.orders_max = Some(-1)],
     [a EXCEPT !.orders_min = Some(2), !.orders_max = Some(1)],
     [a EXCEPT !.orders_min = None],
     [a EXCEPT !.orders_max = None],
     [a EXCEPT !.orders_min = None, !.orders_max = None, !.orders_per_day = -1],
     [a EXCEPT !.orders_std = Some(-1)],
     [a EXCEPT !.orders_std = None, !.orders_mean = None],
     [a EXCEPT !.orders_min = None, !.orders_max = None, !.orders_std = None,
               !.orders_mean = None, !.orders_per_day = 15],
     [a EXCEPT !.orders_min = None, !.orders_max = None, !.orders_floor = 4],
     [a EXCEPT !.orders_min = None, !.orders_max = None, !.orders_per_day = 90],
     [a EXCEPT !.orders_partitioning = "ymd"],
     [a EXCEPT !.orders_partitioning = "weekly"]}

\* the constructor calls the model makes
ECommerceArgs ==
    UNION {ArgsVariants(BaseArgs(mode)) : mode \in {"fixed", "range", "normal", "poisson"}}

\* ECommerceGenerator(...) has been called; __post_init__ has not yet run
InitECommerceArgs ==
    /\ ec_pc = "args"
    /\ ec_args \in ECommerceArgs
    /\ ec_self = [seed |-> 0]
    /\ ec_daily_counts = <<>>
    /\ ec_iters = <<>>

\* __post_init__: validation, the partition columns, then the daily counts
PostInit ==
    /\ ec_pc = "args"
    /\ IF ValidateConfiguration(ec_args) = "ok"
       THEN /\ ec_pc' = "on"
            /\ ec_self' = ValidatedFields(ec_args)
            /\ ec_daily_counts' = ComputeDailyCounts(ValidatedFields(ec_args))
       ELSE /\ ec_pc' = "raised"
            /\ UNCHANGED <<ec_self, ec_daily_counts>>
    /\ UNCHANGED <<ec_args, ec_iters>>
    /\ UNCHANGED notECommerceVars

\* __post_init__: the partition columns and the daily counts are computed once
InitECommerce ==
    /\ ec_pc = "on"
    /\ \E config \in ECommerceConfigs :
          /\ ec_args = ArgsOf(config)
          /\ ec_self = config
          /\ ec_daily_counts = ComputeDailyCounts(config)
    /\ ec_iters = <<>>

\* self._partition_columns_cache
PartitionColumnsCache == ResolvePartitionColumns(ec_self.orders_partitioning)

\* a mutant of FirstOrderId: the counter lives on the instance and goes on
\* from the orders the other traversals have produced
FirstOrderId_Carried ==
    1 + Len(Concat(Concat([k \in 1..Len(ec_iters) |->
                              IF ec_iters[k].table = "orders"
                              THEN ec_iters[k].out ELSE <<>>])))

\* current_order_id = 1
FirstOrderId == 1

\* a traversal that has not begun: the body of a generator function runs from
\* the first next()
NewTraversal(table) ==
    [table |-> table, pc |-> "created", order_rng |-> NoRng, item_rng |-> NoRng,
     current_order_id |-> 0, day |-> 0, remaining |-> 0, pending |-> <<>>,
     out |-> <<>>]

\* (self._generate_customers(),): the frame is built when batches_for is called
NewTuple(table, frame) ==
    [table |-> table, pc |-> "tuple", order_rng |-> NoRng, item_rng |-> NoRng,
     current_order_id |-> 0, day |-> 0, remaining |-> 0, pending |-> <<frame>>,
     out |-> <<>>]

\* batches_for(table), lines 116-125
ECommerceBatchesFor(table) ==
    /\ ec_pc = "on"
    /\ Len(ec_iters) < MaxIterators
    /\ ec_iters' = Append(ec_iters,
          IF table = "customers" THEN NewTuple(table, GenerateCustomers(ec_self))
          ELSE IF table = "products" THEN NewTuple(table, GenerateProducts(ec_self))
          ELSE NewTraversal(table))
    /\ UNCHANGED <<ec_pc, ec_args, ec_self, ec_daily_counts>>
    /\ UNCHANGED notECommerceVars

\* next() on the tuple of a dimension table
TupleNext(i) ==
    /\ ec_pc = "on"
    /\ i \in 1..Len(ec_iters)
    /\ ec_iters[i].pc = "tuple"
    /\ ec_iters' = [ec_iters EXCEPT ![i] =
          IF Len(@.pending) = 0
          THEN [@ EXCEPT !.pc = "done"]
          ELSE [@ EXCEPT !.out = Append(@, Head(ec_iters[i].pending)),
                         !.pending = Tail(@)]]
    /\ UNCHANGED <<ec_pc, ec_args, ec_self, ec_daily_counts>>
    /\ UNCHANGED notECommerceVars

RECURSIVE SeekBatch(_, _)
\* the for and while loops of _order_batches, up to the next batch: the day
\* whose rows come next and the rows it still owes, or the end of the plan
SeekBatch(day, remaining) ==
    IF remaining > 0 THEN [day |-> day, remaining |-> remaining]
    ELSE IF day >= Len(ec_daily_counts) THEN [day |-> Len(ec_daily_counts) + 1,
                                              remaining |-> 0]
    ELSE SeekBatch(day + 1, ec_daily_counts[day + 1].count)

\* the traversal as its first next() finds it: lines 288-289 and 300-302 run
Begun(it) ==
    IF it.pc = "created"
    THEN [it EXCEPT !.pc = "running",
                    !.order_rng = DefaultRng(ec_self.seed + OrdersSeedOffset),
                    !.item_rng = DefaultRng(ec_self.seed + ItemsSeedOffset),
                    !.current_order_id = FirstOrderId]
    ELSE it

\* a mutant of BatchSize: what the day still owes goes into one batch
BatchSize_WholeDay(remaining, file_rows_target) == remaining

\* batch = min(remaining, self.file_rows_target), lines 293 and 306
BatchSize(remaining, file_rows_target) == Min2(remaining, file_rows_target)

\* next() on _order_batches or _order_item_batches: runs to the next yield, or
\* to the end of the generator function
TraversalNext(i) ==
    /\ ec_pc = "on"
    /\ i \in 1..Len(ec_iters)
    /\ ec_iters[i].pc \in {"created", "running"}
    /\ Len(ec_iters[i].out) < MaxBatches
    /\ LET it == Begun(ec_iters[i])
           at == SeekBatch(it.day, it.remaining)
           batch == BatchSize(at.remaining, ec_self.file_rows_target)
           orders_df == OrderBatch(ec_self, PartitionColumnsCache, it.order_rng,
                                   ec_daily_counts[at.day].day,
                                   it.current_order_id, batch)
           items_df == OrderItemsForOrders(ec_self, it.item_rng, orders_df)
       IN  ec_iters' = [ec_iters EXCEPT ![i] =
              IF at.day > Len(ec_daily_counts)
              THEN [it EXCEPT !.pc = "done", !.day = at.day, !.remaining = 0]
              ELSE IF batch < 0
              THEN \* rng.integers(..., size=n_orders) raises ValueError
                   [it EXCEPT !.pc = "raised", !.day = at.day,
                              !.remaining = at.remaining]
              ELSE [it EXCEPT
                      !.day = at.day,
                      !.remaining = at.remaining - batch,
                      !.current_order_id = @ + batch,
                      !.order_rng = RngSkip(@, OrderBatchDraws(batch)),
                      !.item_rng = IF it.table = "order_items"
                                   THEN RngSkip(@, OrderItemsDraws(Len(orders_df),
                                                                   Len(items_df)))
                                   ELSE @,
                      !.out = Append(@, IF it.table = "order_items"
                                        THEN items_df ELSE orders_df)]]
    /\ UNCHANGED <<ec_pc, ec_args, ec_self, ec_daily_counts>>
    /\ UNCHANGED notECommerceVars

NextECommerce ==
    \/ \E table \in Range(ECommerceTables) : ECommerceBatchesFor(table)
    \/ \E i \in 1..MaxIterators : TupleNext(i)
    \/ \E i \in 1..MaxIterators : TraversalNext(i)

NextECommerceConstructor ==
    \/ PostInit
    \/ \E table \in Range(ECommerceTables) : ECommerceBatchesFor(table)
    \/ \E i \in 1..MaxIterators : TupleNext(i)
    \/ \E i \in 1..MaxIterators : TraversalNext(i)

-----------------------------------------------------------------------------
(* MarketOHLCVGenerator and MarketQuotesGenerator.  Prices are in cents.   *)

\* no base_prices argument
NoBasePrices == [sym \in {} |-> 0]

\* the fields of a MarketOHLCVGenerator; base_prices names the second symbol
OHLCVFields(symbols, freq, hours, target, base_price) ==
    [kind |-> "ohlcv", symbols |-> symbols, freq |-> freq,
     start_date |-> Date(2023, 1, 31), end_date |-> Date(2023, 2, 1),
     base_price |-> base_price, base_prices |-> [sym \in {"BBB"} |-> 5000],
     trading_hours |-> hours, quotes_per_minute |-> 0,
     size_mean |-> 0, size_sigma |-> 0,
     seed |-> 123, file_rows_target |-> target]

\* the instances the model constructs: arguments the constructors accept;
\* base_price and base_prices are not validated, trading hours may be empty
OHLCVConfigs ==
    {OHLCVFields(symbols, freq, <<9, 11>>, target, 10000) :
        symbols \in {<<"AAA">>, <<"AAA", "BBB">>}, freq \in {"1d", "1h"},
        target \in {1, 3}}
    \cup {OHLCVFields(<<"AAA", "BBB">>, "1h", <<9, 9>>, 1, 10000),
          OHLCVFields(<<"AAA", "CCC">>, "1d", <<9, 11>>, 1, -10000),
          OHLCVFields(<<"AAA">>, "1d", <<9, 11>>, 1, 0)}

QuotesConfigs ==
    {[kind |-> "quotes", symbols |-> symbols, freq |-> "1m",
      start_date |-> Date(2023, 1, 31), end_date |-> Date(2023, 1, 31),
      base_price |-> 10000, base_prices |-> NoBasePrices,
      trading_hours |-> <<9, 10>>, quotes_per_minute |-> 1,
      size_mean |-> 200, size_sigma |-> 60,
      seed |-> 321, file_rows_target |-> target] :
        symbols \in {<<"AAA", "BBB">>}, target \in {50, 100}}

\* _resolve_step_minutes
ResolveStepMinutes(freq) ==
    IF freq = "1m" THEN 1
    ELSE IF freq = "5m" THEN 5
    ELSE IF freq = "15m" THEN 15
    ELSE IF freq = "1h" THEN 60
    ELSE 1440

\* MarketOHLCVGenerator._resolve_partition_columns; the quotes generator
\* always uses the four columns
MarketPartitionColumns(self) ==
    IF self.kind = "ohlcv" /\ self.freq = "1d" THEN <<"year", "month">>
    ELSE <<"year", "month", "day", "hour">>

Timestamp(day, minute_of_day, second) ==
    [date |-> day, hour |-> minute_of_day \div 60, minute |-> minute_of_day % 60,
     second |-> second]

RECURSIVE TimestampsFrom(_, _, _, _)
\* the while loop of _timestamps_for_day and _minute_timestamps
TimestampsFrom(day, current, end, step) ==
    IF current < end
    THEN <<Timestamp(day, current, 0)>> \o TimestampsFrom(day, current + step, end, step)
    ELSE <<>>

\* _timestamps_for_day (OHLCV), _minute_timestamps (quotes)
TimestampsForDay(self, day) ==
    IF self.kind = "ohlcv" /\ self.freq = "1d" THEN <<Timestamp(day, 0, 0)>>
    ELSE TimestampsFrom(day, self.trading_hours[1] * 60, self.trading_hours[2] * 60,
                        IF self.kind = "ohlcv" THEN ResolveStepMinutes(self.freq) ELSE 1)

\* open_price * math.exp(log_return): the return drawn is between -5% and +5%
ApplyReturn(price, drawn) == (price * (95 + (drawn % 11))) \div 100

\* the price floor, 0.01
PriceFloor == 1

RECURSIVE PriceChain(_, _, _, _, _)
\* prev_close / prev_mid through the rows of one call: the prices of rows
\* k..n, each the return of its row applied to the price before it; a row
\* makes `each` draws, the return first
PriceChain(prev, rng, each, k, n) ==
    IF k > n THEN <<>>
    ELSE LET price == Max2(PriceFloor, ApplyReturn(prev, RngValue(rng, each * (k - 1) + 1)))
         IN  <<price>> \o PriceChain(price, rng, each, k + 1, n)

\* the for loop of MarketOHLCVGenerator._rows_for_symbol_day, four draws a bar
OhlcvRows(symbol, timestamps, rng, prev_close) ==
    LET n == Len(timestamps)
        closes == PriceChain(prev_close, rng, 4, 1, n)
    IN  [rows |-> [k \in 1..n |->
                    LET open_price == IF k = 1 THEN prev_close ELSE closes[k - 1]
                        close_price == closes[k]
                        top == Max2(open_price, close_price)
                        bottom == Min2(open_price, close_price)
                        d2 == RngValue(rng, 4 * (k - 1) + 2)
                        d3 == RngValue(rng, 4 * (k - 1) + 3)
                        d4 == RngValue(rng, 4 * (k - 1) + 4)
                    IN  [timestamp |-> timestamps[k], symbol |-> symbol,
                         open |-> open_price,
                         high |-> top + ((top * (d2 % 3)) \div 1000),
                         low |-> bottom - ((bottom * (d3 % 3)) \div 1000),
                         close |-> close_price,
                         volume |-> Max2(1, d4)]],
         rng |-> RngSkip(rng, 4 * n),
         prev |-> IF n = 0 THEN prev_close ELSE closes[n]]

\* a mutant of NextSequence: every call numbers its quotes from 1
NextSequence_Restart(sequence_start, n) == 1

\* sequence after the n quotes of one call, each followed by sequence += 1
NextSequence(sequence_start, n) == sequence_start + n

\* the loops of MarketQuotesGenerator._rows_for_symbol_day, five draws a quote
QuoteRows(self, symbol, minute_timestamps, rng, prev_mid, sequence_start) ==
    LET n == Len(minute_timestamps) * self.quotes_per_minute
        mids == PriceChain(prev_mid, rng, 5, 1, n)
    IN  [rows |-> [k \in 1..n |->
                    LET minute_ts == minute_timestamps[1 + ((k - 1) \div self.quotes_per_minute)]
                        mid_price == mids[k]
                        spread_bps == Max2(1, RngValue(rng, 5 * (k - 1) + 2))
                        d3 == RngValue(rng, 5 * (k - 1) + 3)
                        d4 == RngValue(rng, 5 * (k - 1) + 4)
                        d5 == RngValue(rng, 5 * (k - 1) + 5)
                        spread == (mid_price * spread_bps) \div 10000
                        bid == Max2(PriceFloor, mid_price - (spread \div 2))
                    IN  [timestamp |-> [minute_ts EXCEPT !.second = d5 % 60],
                         symbol |-> symbol,
                         bid_price |-> bid, ask_price |-> bid + spread,
                         bid_size |-> Max2(1, self.size_mean + self.size_sigma * ((d3 % 5) - 2)),
                         ask_size |-> Max2(1, self.size_mean + self.size_sigma * ((d4 % 5) - 2)),
                         spread_bps |-> spread_bps,
                         sequence |-> sequence_start + k - 1]],
         rng |-> RngSkip(rng, 5 * n),
         prev |-> IF n = 0 THEN prev_mid ELSE mids[n],
         sequence |-> NextSequence(sequence_start, n)]

\* _rows_for_symbol_day of either generator: the rows, and what the call
\* leaves in the rng, in self._last_close / self._last_mid and in sequence
RowsForSymbolDay(self, symbol, timestamps, rng, last, sequence) ==
    IF self.kind = "ohlcv"
    THEN LET r == OhlcvRows(symbol, timestamps, rng, last[symbol])
         IN  [rows |-> r.rows, rng |-> r.rng,
              last |-> [last EXCEPT ![symbol] = r.prev], sequence |-> sequence]
    ELSE LET r == QuoteRows(self, symbol, timestamps, rng, last[symbol], sequence)
         IN  [rows |-> r.rows, rng |-> r.rng,
              last |-> [last EXCEPT ![symbol] = r.prev], sequence |-> r.sequence]

\* _build_frame: the rows with the partition columns of their timestamps
BuildFrame(self, rows) ==
    [k \in 1..Len(rows) |->
        [row |-> rows[k],
         partition |->
            [c \in 1..Len(MarketPartitionColumns(self)) |->
                LET col == MarketPartitionColumns(self)[c]
                    ts == rows[k].timestamp
                IN  IF col = "year" THEN IntV(ts.date.year)
                    ELSE IF col = "month" THEN IntV(ts.date.month)
                    ELSE IF col = "day" THEN IntV(ts.date.day)
                    ELSE IntV(ts.hour)]]]

\* the instance is not part of the run
MarketOff ==
    /\ mk_pc = "off"
    /\ mk_self = [seed |-> 0]
    /\ mk_last = <<>>
    /\ mk_iters = <<>>

\* __post_init__: every symbol starts at its base_prices entry, else at
\* base_price
InitialLast(self) ==
    [sym \in Range(self.symbols) |-> DictGet(self.base_prices, sym, self.base_price)]

InitMarket ==
    /\ mk_pc = "on"
    /\ mk_self \in OHLCVConfigs \cup QuotesConfigs
    /\ mk_last = InitialLast(mk_self)
    /\ mk_iters = <<>>

\* the (day, symbol) pairs in the order of the two for loops
SymbolDays(self) ==
    LET days == DateRange(self.start_date, self.end_date)
        n == Len(self.symbols)
    IN  [k \in 1..(Len(days) * n) |->
            [day |-> days[1 + ((k - 1) \div n)], symbol |-> self.symbols[1 + ((k - 1) % n)]]]

\* batches_for(table): a generator iterator, its body not yet begun
MarketBatchesFor ==
    /\ mk_pc = "on"
    /\ Len(mk_iters) < MaxIterators
    /\ mk_iters' = Append(mk_iters,
          [pc |-> "created", began |-> 0, rng |-> NoRng, sequence |-> 0, pos |-> 0,
           out |-> <<>>])
    /\ UNCHANGED <<mk_pc, mk_self, mk_last>>
    /\ UNCHANGED notMarketVars

RECURSIVE FillChunk(_, _, _, _, _, _)
\* the for loops of _ohlcv_batches / _quote_batches from the symbol-day at
\* pos up to the next full chunk or the end of the range
FillChunk(self, pos, chunk, rng, last, sequence) ==
    IF pos > Len(SymbolDays(self))
    THEN [pos |-> pos, chunk |-> chunk, rng |-> rng, last |-> last,
          sequence |-> sequence, full |-> FALSE]
    ELSE LET at == SymbolDays(self)[pos]
             timestamps == TimestampsForDay(self, at.day)
             r == RowsForSymbolDay(self, at.symbol, timestamps, rng, last, sequence)
         IN  IF Len(timestamps) = 0
             THEN FillChunk(self, pos + 1, chunk, rng, last, sequence)
             ELSE IF Len(r.rows) > 0 /\ Len(chunk \o r.rows) >= self.file_rows_target
             THEN [pos |-> pos + 1, chunk |-> chunk \o r.rows, rng |-> r.rng,
                   last |-> r.last, sequence |-> r.sequence, full |-> TRUE]
             ELSE FillChunk(self, pos + 1, chunk \o r.rows, r.rng, r.last, r.sequence)

\* the iterator as its first next() finds it: rng = default_rng(self.seed),
\* sequence = 1, the loops at their start; began is history, the rank of the
\* iterator among those whose body has begun
MarketBegun(it) ==
    IF it.pc = "created"
    THEN [it EXCEPT !.pc = "running", !.rng = DefaultRng(mk_self.seed),
                    !.sequence = 1, !.pos = 1,
                    !.began = 1 + Cardinality({j \in 1..Len(mk_iters) :
                                                  mk_iters[j].pc # "created"})]
    ELSE it

\* next() on the iterator: runs to the next yield, or to the end of the
\* generator function
MarketNext(i) ==
    /\ mk_pc = "on"
    /\ i \in 1..Len(mk_iters)
    /\ mk_iters[i].pc \in {"created", "running"}
    /\ LET it == MarketBegun(mk_iters[i])
           r == FillChunk(mk_self, it.pos, <<>>, it.rng, mk_last, it.sequence)
       IN  /\ mk_last' = r.last
           /\ mk_iters' = [mk_iters EXCEPT ![i] =
                 IF Len(r.chunk) = 0
                 THEN [it EXCEPT !.pc = "done", !.pos = r.pos]
                 ELSE [it EXCEPT !.pos = r.pos, !.rng = r.rng,
                                 !.sequence = r.sequence,
                                 !.out = Append(@, BuildFrame(mk_self, r.chunk))]]
    /\ UNCHANGED <<mk_pc, mk_self>>
    /\ UNCHANGED notMarketVars

NextMarket ==
    \/ MarketBatchesFor
    \/ \E i \in 1..MaxIterators : MarketNext(i)

-----------------------------------------------------------------------------
(* The DatasetGenerator methods of the five generators: which table names  *)
(* they take.                                                              *)

Generators == {"ecommerce", "market_ohlcv", "market_quotes", "sensors", "weather"}

\* tables()
TablesOf(generator) ==
    IF generator = "ecommerce" THEN <<"customers", "products", "orders", "order_items">>
    ELSE IF generator = "market_ohlcv" THEN <<"ohlcv">>
    ELSE IF generator = "market_quotes" THEN <<"quotes">>
    ELSE IF generator = "sensors" THEN <<"sensor_readings">>
    ELSE <<"weather_hourly", "weather_daily">>

\* the names the methods are called with: every table of every generator,
\* and names no generator has
CalledNames ==
    UNION {Range(TablesOf(generator)) : generator \in Generators}
        \cup {"", "unknown", "Customers"}

\* a mutant of BatchesForResult: batches_for of the weather generator is
\* itself a generator function, its body (and its raise) run by the first next()
BatchesForResult_WeatherLazy(generator, table) ==
    IF generator = "weather" THEN "iterable"
    ELSE IF table \in Range(TablesOf(generator)) THEN "iterable"
    ELSE "ValueError"

\* batches_for(table): an iterable is returned, or ValueError raised by the call
BatchesForResult(generator, table) ==
    IF generator = "ecommerce"
    THEN IF table = "customers" THEN "iterable"
         ELSE IF table = "products" THEN "iterable"
         ELSE IF table = "orders" THEN "iterable"
         ELSE IF table = "order_items" THEN "iterable"
         ELSE "ValueError"
    ELSE IF generator = "market_ohlcv"
    THEN IF table # "ohlcv" THEN "ValueError" ELSE "iterable"
    ELSE IF generator = "market_quotes"
    THEN IF table # "quotes" THEN "ValueError" ELSE "iterable"
    ELSE IF generator = "sensors"
    THEN IF table # "sensor_readings" THEN "ValueError" ELSE "iterable"
    ELSE IF table = "weather_hourly" THEN "iterable"
         ELSE IF table = "weather_daily" THEN "iterable"
         ELSE "ValueError"

\* schema_for(table): a schema, or None
SchemaForResult(generator, table) ==
    IF generator = "ecommerce"
    THEN IF table \in {"customers", "products", "orders", "order_items"}
         THEN "schema" ELSE "None"
    ELSE IF generator = "market_ohlcv"
    THEN IF table # "ohlcv" THEN "None" ELSE "schema"
    ELSE IF generator = "market_quotes"
    THEN IF table # "quotes" THEN "None" ELSE "schema"
    ELSE IF generator = "sensors"
    THEN IF table # "sensor_readings" THEN "None" ELSE "schema"
    ELSE IF table \in {"weather_hourly", "weather_daily"} THEN "schema" ELSE "None"

\* partition_spec_for(table): a PartitionSpec, or None
PartitionSpecForResult(generator, table) ==
    IF generator = "ecommerce"
    THEN IF table \in {"orders", "order_items"} THEN "PartitionSpec" ELSE "None"
    ELSE IF generator = "market_ohlcv"
    THEN IF table # "ohlcv" THEN "None" ELSE "PartitionSpec"
    ELSE IF generator = "market_quotes"
    THEN IF table # "quotes" THEN "None" ELSE "PartitionSpec"
    ELSE IF generator = "sensors"
    THEN IF table # "sensor_readings" THEN "None" ELSE "PartitionSpec"
    ELSE IF table \in {"weather_hourly", "weather_daily"} THEN "PartitionSpec" ELSE "None"

\* no generator is part of the run
InterfaceOff ==
    /\ gi_generator = "none"
    /\ gi_calls = <<>>

InitInterface ==
    /\ gi_generator \in Generators
    /\ gi_calls = <<>>

\* a call and what it gave; pulled counts the next() calls on the iterable
\* returned, raised_at the moment an error came out
Call(method, table, result) ==
    [method |-> method, table |-> table, result |-> result, pulled |-> 0,
     raised_at |-> IF result = "ValueError" THEN "call" ELSE "never"]

CallBatchesFor(table) ==
    /\ gi_generator \in Generators
    /\ Len(gi_calls) < MaxInterfaceCalls
    /\ gi_calls' = Append(gi_calls,
          Call("batches_for", table, BatchesForResult(gi_generator, table)))
    /\ UNCHANGED gi_generator
    /\ UNCHANGED notInterfaceVars

CallSchemaFor(table) ==
    /\ gi_generator \in Generators
    /\ Len(gi_calls) < MaxInterfaceCalls
    /\ gi_calls' = Append(gi_calls,
          Call("schema_for", table, SchemaForResult(gi_generator, table)))
    /\ UNCHANGED gi_generator
    /\ UNCHANGED notInterfaceVars

CallPartitionSpecFor(table) ==
    /\ gi_generator \in Generators
    /\ Len(gi_calls) < MaxInterfaceCalls
    /\ gi_calls' = Append(gi_calls,
          Call("partition_spec_for", table, PartitionSpecForResult(gi_generator, table)))
    /\ UNCHANGED gi_generator
    /\ UNCHANGED notInterfaceVars

\* the first next() on an iterable batches_for returned: a batch of the
\* table comes out; a body that does not know the table raises
PullFirstBatch(c) ==
    /\ gi_generator \in Generators
    /\ c \in 1..Len(gi_calls)
    /\ gi_calls[c].method = "batches_for"
    /\ gi_calls[c].result = "iterable"
    /\ gi_calls[c].pulled = 0
    /\ gi_calls' = [gi_calls EXCEPT ![c] =
          IF gi_calls[c].table \in Range(TablesOf(gi_generator))
          THEN [@ EXCEPT !.pulled = 1]
          ELSE [@ EXCEPT !.pulled = 1, !.raised_at = "next"]]
    /\ UNCHANGED gi_generator
    /\ UNCHANGED notInterfaceVars

NextInterface ==
    \/ \E table \in CalledNames : CallBatchesFor(table)
    \/ \E table \in CalledNames : CallSchemaFor(table)
    \/ \E table \in CalledNames : CallPartitionSpecFor(table)
    \/ \E c \in 1..MaxInterfaceCalls : PullFirstBatch(c)

-----------------------------------------------------------------------------
(* SensorsGenerator (generators/sensors.py).  A run is one Python process  *)
(* that constructs a generator and traverses batches_for("sensor_readings"). *)

\* the keys hash() of a str is salted with: PYTHONHASHSEED is unset, so every
\* process draws its own when it starts
HashSeeds == {0, 1}

\* hash(metric) % 997 in a process with the given salt
StrHashMod997(hash_seed, metric) ==
    CASE metric = "temperature" -> (611 * hash_seed + 127) % 997
      [] metric = "vibration" -> (389 * hash_seed + 540) % 997
      [] OTHER -> (83 * hash_seed + 7) % 997

\* metric_hash = (hash(metric) % 997) / 997, line 90, in 997ths
MetricHash(hash_seed, metric) == StrHashMod997(hash_seed, metric)

\* the constructor's fields; probabilities are in sixteenths
SensorsFields(seed, n_devices, target) ==
    [n_devices |-> n_devices, metrics |-> <<"temperature", "vibration">>,
     start_date |-> Date(2023, 1, 31), end_date |-> Date(2023, 1, 31),
     sampling_interval_minutes |-> 720, missing_probability |-> 2,
     anomaly_probability |-> 3, seed |-> seed, file_rows_target |-> target]

SensorsConfigs ==
    {SensorsFields(seed, n_devices, target) :
        seed \in {999, 1000}, n_devices \in {1, 2}, target \in {3}}
    \cup {SensorsFields(999, 1, 250)}

\* _timestamps: every sampling instant of every day of the range
SensorTimestamps(self) ==
    LET days == DateRange(self.start_date, self.end_date)
    IN  Concat([d \in 1..Len(days) |->
                   TimestampsFrom(days[d], 0, 24 * 60, self.sampling_interval_minutes)])

RECURSIVE DayOfYear(_)
\* ts.timetuple().tm_yday
DayOfYear(date) ==
    IF date.month = 1 THEN date.day
    ELSE DaysInMonth(date.year, date.month - 1)
            + DayOfYear(Date(date.year, date.month - 1, date.day))

\* the partition columns _build_frame adds
SensorPartition(ts) ==
    <<IntV(ts.date.year), IntV(ts.date.month), IntV(ts.date.day), IntV(ts.hour)>>

\* the i-th row appended to chunk, lines 85-115.  value is kept as the terms
\* of 10 * sin(2 pi day_of_year / 365 + metric_hash) + drift_per_hour * hours
\* + device_offset + noise (+ anomaly_adjustment): for the days of January
\* the argument of sin is in [0, pi / 2), where sin is strictly increasing,
\* so two values with all other terms equal are equal exactly when their
\* metric_hash is.
ReadingRow(self, hash_seed, i) ==
    LET timestamps == SensorTimestamps(self)
        n == Len(timestamps)
        m == Len(self.metrics)
        device_id == ((i - 1) \div (m * n)) + 1
        j == (((i - 1) % (m * n)) \div n) + 1
        t == ((i - 1) % n) + 1
        ts == timestamps[t]
        metric == self.metrics[j]
        device_offset == RngValue(DefaultRng(self.seed + device_id * 101), 1)
        rng == RngSkip(DefaultRng(self.seed), 4 * n * ((device_id - 1) * m + (j - 1)))
        noise == RngValue(rng, t)
        is_anomaly == RngValue(rng, n + t) < self.anomaly_probability
        anomaly_adjustment == RngValue(rng, 2 * n + t)
        is_missing == RngValue(rng, 3 * n + t) < self.missing_probability
    IN  [timestamp |-> ts, device_id |-> device_id, metric |-> metric,
         value |-> IF is_missing THEN [none |-> TRUE]
                   ELSE [none |-> FALSE, day_of_year |-> DayOfYear(ts.date),
                         metric_hash |-> MetricHash(hash_seed, metric),
                         hours |-> 60 * ts.hour + ts.minute,
                         device_offset |-> device_offset, noise |-> noise,
                         anomaly_adjustment |-> IF is_anomaly THEN anomaly_adjustment
                                                ELSE 0],
         is_anomaly |-> is_anomaly, is_missing |-> is_missing,
         partition |-> SensorPartition(ts)]

\* the number of rows one traversal appends to chunk
ReadingRowCount(self) ==
    self.n_devices * Len(self.metrics) * Len(SensorTimestamps(self))

SensorsOff ==
    /\ sn_pc = "off"
    /\ sn_procs = <<>>

InitSensors ==
    /\ sn_pc = "on"
    /\ sn_procs = <<>>

\* a process starts, constructs SensorsGenerator(**config) and calls
\* batches_for("sensor_readings"), lines 59-62
StartProcess(hash_seed, config) ==
    /\ sn_pc = "on"
    /\ Len(sn_procs) < MaxProcesses
    /\ sn_procs' = Append(sn_procs, [hash_seed |-> hash_seed, self |-> config,
                                     pc |-> "running", rows |-> 0, out |-> <<>>])
    /\ UNCHANGED sn_pc
    /\ UNCHANGED notSensorsVars

\* next() on _reading_batches, lines 78-120: rows are appended to chunk until
\* it has file_rows_target rows or the loops end
ReadingsNext(p) ==
    /\ sn_pc = "on"
    /\ p \in 1..Len(sn_procs)
    /\ sn_procs[p].pc = "running"
    /\ LET proc == sn_procs[p]
           total == ReadingRowCount(proc.self)
           last == Min2(total, proc.rows + Max2(1, proc.self.file_rows_target))
           chunk == [k \in 1..(last - proc.rows) |->
                        ReadingRow(proc.self, proc.hash_seed, proc.rows + k)]
       IN  sn_procs' = [sn_procs EXCEPT ![p] =
              IF Len(chunk) = 0 THEN [@ EXCEPT !.pc = "done"]
              ELSE [@ EXCEPT !.rows = last, !.out = Append(@, chunk)]]
    /\ UNCHANGED sn_pc
    /\ UNCHANGED notSensorsVars

NextSensors ==
    \/ \E hash_seed \in HashSeeds, config \in SensorsConfigs :
          StartProcess(hash_seed, config)
    \/ \E p \in 1..MaxProcesses : ReadingsNext(p)

-----------------------------------------------------------------------------
(* Two ParquetPartitionedWriter instances constructed for one output_uri.  *)
(* Each has its own _partition_counters (parquet.py line 26); the          *)
(* filesystem under the root is the same.  Their write() calls run one     *)
(* after the other or interleaved, group by group.                         *)

\* the writer instances
Instances == {1, 2}

\* the table both instances write, in the fact regime
SharedTable == "orders"

\* the batches a write() call is given: rows of one key, or of two keys
SharedBatches(first_id) ==
    {MakeBatch(keys, first_id) :
        keys \in {ks \in SeqsUpTo(KeysOf(SharedTable), 2) :
                     Len(ks) = Cardinality(Range(ks)) /\ Len(ks) > 0}}

\* a mutant of CountersOf: every instance reads the counters of the first
CountersOf_FirstInstance(i) == sd_writers[1].counters

\* self._partition_counters[table] of instance i
CountersOf(i) == sd_writers[i].counters

SharedOff ==
    /\ sd_pc = "off"
    /\ sd_writers = <<>>
    /\ sd_files = <<>>
    /\ sd_log = <<>>

\* __init__, lines 17-26, of both instances: empty counters, nothing written
InitShared ==
    /\ sd_pc = "on"
    /\ sd_writers = [i \in Instances |-> [counters |-> <<>>, calls |-> 0, groups |-> <<>>]]
    /\ sd_files = <<>>
    /\ sd_log = <<>>

\* write() of instance i with a stream of one batch, lines 37-38 and 58-59
SharedWrite(i) ==
    /\ sd_pc = "on"
    /\ sd_writers[i].groups = <<>>
    /\ sd_writers[1].calls + sd_writers[2].calls < MaxSharedCalls
    /\ \E batch \in SharedBatches(100 * i + 10 * sd_writers[i].calls) :
          sd_writers' = [sd_writers EXCEPT ![i].groups = GroupBy(batch),
                                           ![i].calls = @ + 1]
    /\ UNCHANGED <<sd_pc, sd_files, sd_log>>
    /\ UNCHANGED notSharedVars

\* _write_partitioned of instance i, lines 60-79: one group is persisted
SharedPersistGroup(i) ==
    /\ sd_pc = "on"
    /\ sd_writers[i].groups # <<>>
    /\ LET columns == SpecOf(SharedTable).columns
           key_tuple == NormalisePartitionKey(Head(sd_writers[i].groups).key)
           subdf == Head(sd_writers[i].groups).subdf
           folder == Folder(SharedTable, columns, key_tuple)
           idx == DictGet(CountersOf(i), DictKey(key_tuple), 0)
           path == PartPath(folder, idx)
       IN  /\ sd_files' = DictSet(sd_files, path, subdf)
           /\ sd_log' = Append(sd_log, [instance |-> i, call |-> sd_writers[i].calls,
                                        key |-> key_tuple, idx |-> idx, path |-> path,
                                        rows |-> subdf,
                                        existed |-> path \in DOMAIN sd_files])
           /\ sd_writers' = [sd_writers EXCEPT
                 ![i].groups = Tail(@),
                 ![i].counters = DictSet(@, DictKey(key_tuple), NextIndex(idx))]
    /\ UNCHANGED sd_pc
    /\ UNCHANGED notSharedVars

NextShared ==
    \/ \E i \in Instances : SharedWrite(i)
    \/ \E i \in Instances : SharedPersistGroup(i)

-----------------------------------------------------------------------------
(* DeltaLakeWriter (writers/delta.py).  One writer, one table name: the    *)
(* Delta table at uri is the list of the batches it holds, each batch      *)
(* named by the call and its position in the call's stream.                *)

\* no table at uri
NoDeltaTable == [exists |-> FALSE, rows |-> <<>>]

\* the number of batches the stream of a write() call yields
DeltaStreamLengths == 0..2

\* DeltaTable(uri, storage_options=...): the table is loaded, or the
\* constructor raises; it raises TableNotFoundError when there is no table
\* at uri, and a DeltaError when the table is there and its log cannot be
\* read (storage not reachable, credentials refused, log damaged)
OpenOutcomes(table) ==
    IF table.exists THEN {"loaded", "DeltaError"} ELSE {"TableNotFoundError"}

\* _table_exists, lines 90-97: True when the constructor returned, False on
\* every Exception (DeltaTable is not None once __init__ has returned)
TableExists(outcome) == outcome = "loaded"

\* write_deltalake(uri, data, mode=...): overwrite replaces the content of
\* the table, append adds to it; both create the table when there is none
WriteDeltalake(table, batch, mode) ==
    [exists |-> TRUE,
     rows |-> IF mode = "overwrite" THEN <<batch>> ELSE Append(table.rows, batch)]

DeltaOff ==
    /\ dl_pc = "off"
    /\ dl_table = NoDeltaTable
    /\ dl_call = <<>>
    /\ dl_log = <<>>

\* __init__, lines 39-46; nothing is at uri yet
InitDelta ==
    /\ dl_pc = "idle"
    /\ dl_table = NoDeltaTable
    /\ dl_call = <<>>
    /\ dl_log = <<>>

\* the write() calls begun so far
DeltaCalls == Cardinality({i \in 1..Len(dl_log) : dl_log[i].kind = "call"})

\* write(), lines 57-62: table_exists and the mode of the first batch
DeltaWrite(n_batches, outcome) ==
    /\ dl_pc = "idle"
    /\ DeltaCalls < MaxDeltaCalls
    /\ outcome \in OpenOutcomes(dl_table)
    /\ LET table_exists == TableExists(outcome)
           mode == IF table_exists THEN "append" ELSE "overwrite"
       IN  /\ dl_call' = [call |-> DeltaCalls + 1, mode |-> mode, k |-> 1,
                          n_batches |-> n_batches]
           /\ dl_log' = Append(dl_log, [kind |-> "call", call |-> DeltaCalls + 1,
                                        k |-> 0, mode |-> mode,
                                        existed |-> dl_table.exists,
                                        before |-> dl_table.rows])
    /\ dl_pc' = "writing"
    /\ UNCHANGED dl_table
    /\ UNCHANGED notDeltaVars

\* one pass of the for loop, lines 64-72
DeltaWriteBatch ==
    /\ dl_pc = "writing"
    /\ dl_call.k <= dl_call.n_batches
    /\ dl_table' = WriteDeltalake(dl_table, <<dl_call.call, dl_call.k>>, dl_call.mode)
    /\ dl_log' = Append(dl_log, [kind |-> "batch", call |-> dl_call.call,
                                 k |-> dl_call.k, mode |-> dl_call.mode,
                                 existed |-> dl_table.exists,
                                 before |-> dl_table.rows])
    /\ dl_call' = [dl_call EXCEPT !.k = @ + 1, !.mode = "append"]
    /\ UNCHANGED dl_pc
    /\ UNCHANGED notDeltaVars

\* the stream is exhausted: write() returns
DeltaReturn ==
    /\ dl_pc = "writing"
    /\ dl_call.k > dl_call.n_batches
    /\ dl_log' = Append(dl_log, [kind |-> "return", call |-> dl_call.call,
                                 k |-> 0, mode |-> dl_call.mode,
                                 existed |-> dl_table.exists,
                                 before |-> dl_table.rows])
    /\ dl_pc' = "idle"
    /\ dl_call' = <<>>
    /\ UNCHANGED dl_table
    /\ UNCHANGED notDeltaVars

NextDelta ==
    \/ \E n_batches \in DeltaStreamLengths :
          \E outcome \in {"loaded", "DeltaError", "TableNotFoundError"} :
              DeltaWrite(n_batches, outcome)
    \/ DeltaWriteBatch
    \/ DeltaReturn

-----------------------------------------------------------------------------
(* IcebergWriter (writers/iceberg.py) and the schemas of the bundled       *)
(* generators.  A schema is the list of its (column, polars dtype) pairs   *)
(* in dict order; a dtype is named by its polars class.                    *)

CUSTOMERS_SCHEMA ==
    <<<<"customer_id", "Int64">>, <<"name", "Utf8">>, <<"email", "Utf8">>,
      <<"signup_date", "Date">>, <<"country", "Utf8">>, <<"is_vip", "Boolean">>>>

PRODUCTS_SCHEMA ==
    <<<<"product_id", "Int64">>, <<"sku", "Utf8">>, <<"category", "Utf8">>,
      <<"price", "Float64">>, <<"discount", "Float64">>, <<"active", "Boolean">>>>

ORDERS_BASE_SCHEMA ==
    <<<<"order_id", "Int64">>, <<"customer_id", "Int64">>, <<"order_date", "Date">>,
      <<"hour_of_day", "Int16">>, <<"status", "Utf8">>, <<"amount", "Float64">>>>

ORDER_ITEMS_BASE_SCHEMA ==
    <<<<"order_item_id", "Int64">>, <<"order_id", "Int64">>,
      <<"product_id", "Int64">>, <<"qty", "Int16">>>>

OHLCV_BASE_SCHEMA ==
    <<<<"timestamp", "Datetime">>, <<"symbol", "Utf8">>, <<"open", "Float64">>,
      <<"high", "Float64">>, <<"low", "Float64">>, <<"close", "Float64">>,
      <<"volume", "Int64">>>>

QUOTES_BASE_SCHEMA ==
    <<<<"timestamp", "Datetime">>, <<"symbol", "Utf8">>, <<"bid_price", "Float64">>,
      <<"ask_price", "Float64">>, <<"bid_size", "Int32">>, <<"ask_size", "Int32">>,
      <<"spread_bps", "Float32">>, <<"sequence", "Int64">>>>

SENSOR_SCHEMA ==
    <<<<"timestamp", "Datetime">>, <<"device_id", "Int64">>, <<"metric", "Utf8">>,
      <<"value", "Float64">>, <<"is_anomaly", "Boolean">>, <<"is_missing", "Boolean">>>>

HOURLY_BASE_SCHEMA ==
    <<<<"timestamp", "Datetime">>, <<"location_id", "Int64">>,
      <<"temperature_c", "Float64">>, <<"humidity_pct", "Float64">>,
      <<"wind_kph", "Float64">>, <<"pressure_hpa", "Float64">>,
      <<"precip_mm", "Float64">>, <<"condition", "Utf8">>>>

DAILY_BASE_SCHEMA ==
    <<<<"date", "Date">>, <<"location_id", "Int64">>, <<"tmin_c", "Float64">>,
      <<"tmax_c", "Float64">>, <<"precip_mm", "Float64">>, <<"snow_mm", "Float64">>,
      <<"condition", "Utf8">>>>

\* _partition_column_schema: the dtype of a partition column
PartitionColumnSchema(column) ==
    IF column = "year" THEN "Int16"
    ELSE IF column = "yearmonth" THEN "Utf8"
    ELSE "Int8"

\* schema = dict(base); schema.update({column: dtype}) for each partition column
SchemaWith(base, columns) ==
    base \o [i \in 1..Len(columns) |-> <<columns[i], PartitionColumnSchema(columns[i])>>]

\* schema_for(table) of the five generators, for every table they have and
\* every set of partition columns their configuration can give
BundledSchemas ==
    {[generator |-> "ecommerce", table |-> "customers", schema |-> CUSTOMERS_SCHEMA],
     [generator |-> "ecommerce", table |-> "products", schema |-> PRODUCTS_SCHEMA],
     [generator |-> "market_quotes", table |-> "quotes",
      schema |-> SchemaWith(QUOTES_BASE_SCHEMA, <<"year", "month", "day", "hour">>)],
     [generator |-> "sensors", table |-> "sensor_readings",
      schema |-> SchemaWith(SENSOR_SCHEMA, <<"year", "month", "day", "hour">>)],
     [generator |-> "weather", table |-> "weather_hourly",
      schema |-> SchemaWith(HOURLY_BASE_SCHEMA, <<"year", "month", "day", "hour">>)],
     [generator |-> "weather", table |-> "weather_daily",
      schema |-> SchemaWith(DAILY_BASE_SCHEMA, <<"year", "month">>)]}
    \cup {[generator |-> "ecommerce", table |-> "orders",
           schema |-> SchemaWith(ORDERS_BASE_SCHEMA, ResolvePartitionColumns(p))] :
              p \in {"ymd", "yearmonth", "ym"}}
    \cup {[generator |-> "ecommerce", table |-> "order_items",
           schema |-> SchemaWith(ORDER_ITEMS_BASE_SCHEMA, ResolvePartitionColumns(p))] :
              p \in {"ymd", "yearmonth", "ym"}}
    \cup {[generator |-> "market_ohlcv", table |-> "ohlcv",
           schema |-> SchemaWith(OHLCV_BASE_SCHEMA, columns)] :
              columns \in {<<"year", "month">>, <<"year", "month", "day", "hour">>}}

\* the schema argument of write(): a schema, or None
NoSchema == <<<<"None", "None">>>>

\* _convert_dtype, lines 117-132: the Iceberg type, or TypeError raised
ConvertDtype(dtype) ==
    IF dtype = "Int64" THEN "LongType"
    ELSE IF dtype \in {"Int32", "Int16", "Int8"} THEN "IntegerType"
    ELSE IF dtype = "Float64" THEN "DoubleType"
    ELSE IF dtype = "Float32" THEN "FloatType"
    ELSE IF dtype = "Boolean" THEN "BooleanType"
    ELSE IF dtype = "Date" THEN "DateType"
    ELSE IF dtype = "Utf8" THEN "StringType"
    ELSE "TypeError"

\* _to_iceberg_schema, lines 103-114: the fields (id, name, type) up to the
\* first column that has no mapping, and the TypeError it raises
ToIcebergSchema(schema) ==
    LET unmapped == {i \in 1..Len(schema) : ConvertDtype(schema[i][2]) = "TypeError"}
        last == IF unmapped = {} THEN Len(schema)
                ELSE (CHOOSE i \in unmapped : \A j \in unmapped : i <= j) - 1
    IN  [raised |-> IF unmapped = {} THEN "nothing" ELSE "TypeError",
         fields |-> [i \in 1..last |->
                        [field_id |-> i, name |-> schema[i][1],
                         field_type |-> ConvertDtype(schema[i][2])]]]

\* the number of batches the stream of a write() call yields
IcebergStreamLengths == 0..1

IcebergOff ==
    /\ ic_pc = "off"
    /\ ic_catalog = {}
    /\ ic_call = <<>>
    /\ ic_log = <<>>

\* __init__, lines 44-68: a catalog without tables
InitIceberg ==
    /\ ic_pc = "idle"
    /\ ic_catalog = {}
    /\ ic_call = <<>>
    /\ ic_log = <<>>

\* a finished or running call in the log
IcebergEntry(table, schema, requests, outcome, appended) ==
    [table |-> table, schema |-> schema, requests |-> requests,
     outcome |-> outcome, appended |-> appended]

\* write(), lines 78-93: the schema check, the table created when the
\* catalog does not hold it, the table loaded
IcebergWrite(table, schema, n_batches) ==
    /\ ic_pc = "idle"
    /\ Len(ic_log) < MaxIcebergCalls
    /\ IF schema = NoSchema
       THEN /\ ic_log' = Append(ic_log, IcebergEntry(table, schema, <<>>, "ValueError", 0))
            /\ UNCHANGED <<ic_pc, ic_catalog, ic_call>>
       ELSE IF table \in ic_catalog
       THEN /\ ic_log' = Append(ic_log, IcebergEntry(table, schema,
                                   <<"table_exists", "load_table">>, "running", 0))
            /\ ic_call' = [n_batches |-> n_batches]
            /\ ic_pc' = "appending"
            /\ UNCHANGED ic_catalog
       ELSE IF ToIcebergSchema(schema).raised = "TypeError"
       THEN /\ ic_log' = Append(ic_log, IcebergEntry(table, schema,
                                   <<"table_exists">>, "TypeError", 0))
            /\ UNCHANGED <<ic_pc, ic_catalog, ic_call>>
       ELSE /\ ic_log' = Append(ic_log, IcebergEntry(table, schema,
                                   <<"table_exists", "create_table", "load_table">>,
                                   "running", 0))
            /\ ic_catalog' = ic_catalog \cup {table}
            /\ ic_call' = [n_batches |-> n_batches]
            /\ ic_pc' = "appending"
    /\ UNCHANGED notIcebergVars

\* one pass of the for loop, lines 94-95
IcebergAppend ==
    /\ ic_pc = "appending"
    /\ ic_log[Len(ic_log)].appended < ic_call.n_batches
    /\ ic_log' = [ic_log EXCEPT ![Len(ic_log)].appended = @ + 1]
    /\ UNCHANGED <<ic_pc, ic_catalog, ic_call>>
    /\ UNCHANGED notIcebergVars

\* the stream is exhausted: write() returns
IcebergReturn ==
    /\ ic_pc = "appending"
    /\ ic_log[Len(ic_log)].appended = ic_call.n_batches
    /\ ic_log' = [ic_log EXCEPT ![Len(ic_log)].outcome = "returned"]
    /\ ic_pc' = "idle"
    /\ ic_call' = <<>>
    /\ UNCHANGED ic_catalog
    /\ UNCHANGED notIcebergVars

NextIceberg ==
    \/ \E b \in BundledSchemas : \E schema \in {b.schema, NoSchema} :
          \E n_batches \in IcebergStreamLengths :
              IcebergWrite(b.table, schema, n_batches)
    \/ IcebergAppend
    \/ IcebergReturn

-----------------------------------------------------------------------------
(* The specifications: one component runs, the others are not part of it.  *)

\* the five components above, none of them part of the run
CoreOff == WriterOff /\ PipelineOff /\ ECommerceOff /\ MarketOff /\ InterfaceOff

\* the components added to them, none of them part of the run
MoreOff == SensorsOff /\ SharedOff /\ DeltaOff /\ IcebergOff

InitPipelineRun ==
    InitPipeline /\ WriterOff /\ ECommerceOff /\ MarketOff /\ InterfaceOff /\ MoreOff

SpecPipeline == InitPipelineRun /\ [][NextPipeline]_vars

InitWriterRun ==
    InitWriter /\ PipelineOff /\ ECommerceOff /\ MarketOff /\ InterfaceOff /\ MoreOff

SpecWriter == InitWriterRun /\ [][NextWriter]_vars

InitECommerceRun ==
    InitECommerce /\ WriterOff /\ PipelineOff /\ MarketOff /\ InterfaceOff /\ MoreOff

SpecECommerce == InitECommerceRun /\ [][NextECommerce]_vars

InitMarketRun ==
    InitMarket /\ WriterOff /\ PipelineOff /\ ECommerceOff /\ InterfaceOff /\ MoreOff

SpecMarket == InitMarketRun /\ [][NextMarket]_vars

InitECommerceConstructorRun ==
    InitECommerceArgs /\ WriterOff /\ PipelineOff /\ MarketOff /\ InterfaceOff /\ MoreOff

SpecECommerceConstructor ==
    InitECommerceConstructorRun /\ [][NextECommerceConstructor]_vars

InitInterfaceRun ==
    InitInterface /\ WriterOff /\ PipelineOff /\ ECommerceOff /\ MarketOff /\ MoreOff

SpecInterface == InitInterfaceRun /\ [][NextInterface]_vars

InitSensorsRun == InitSensors /\ CoreOff /\ SharedOff /\ DeltaOff /\ IcebergOff

SpecSensors == InitSensorsRun /\ [][NextSensors]_vars

InitSharedRun == InitShared /\ CoreOff /\ SensorsOff /\ DeltaOff /\ IcebergOff

SpecShared == InitSharedRun /\ [][NextShared]_vars

InitDeltaRun == InitDelta /\ CoreOff /\ SensorsOff /\ SharedOff /\ IcebergOff

SpecDelta == InitDeltaRun /\ [][NextDelta]_vars

InitIcebergRun == InitIceberg /\ CoreOff /\ SensorsOff /\ SharedOff /\ DeltaOff

SpecIceberg == InitIcebergRun /\ [][NextIceberg]_vars

\* one of the bundled generators is constructed and its streams traversed
InitGenerators ==
    /\ WriterOff
    /\ PipelineOff
    /\ InterfaceOff
    /\ MoreOff
    /\ \/ InitECommerce /\ MarketOff
       \/ InitMarket /\ ECommerceOff

NextGenerators == NextECommerce \/ NextMarket

SpecGenerators == InitGenerators /\ [][NextGenerators]_vars

-----------------------------------------------------------------------------
(* Properties of the writer.                                               *)

RECURSIVE ZeroPad(_, _)
\* the decimal numeral s, zero-padded on the left to w characters
ZeroPad(s, w) == IF Len(s) >= w THEN s ELSE ZeroPad("0" \o s, w)

\* the positions of fs_log written in the fact regime
FactEntries == {i \in 1..Len(fs_log) : fs_log[i].regime = "fact"}

\* two log entries are files of the same (table, partition key)
SameKey(e1, e2) == e1.table = e2.table /\ DictKey(e1.key) = DictKey(e2.key)

\* the fact-regime files written before position i for the key of entry i
EarlierOfKey(i) == {j \in FactEntries : j < i /\ SameKey(fs_log[j], fs_log[i])}

\* C1: for one writer instance, the files written for each (table, partition
\* key) carry the sequence numbers 0, 1, 2, ... in write order, the file of
\* number n is named part-<n, five digits>, and no (table, key, number) is
\* written twice, also across write calls.
C1_SequenceNumbersPerKey ==
    /\ \A i \in FactEntries :
          /\ fs_log[i].idx = Cardinality(EarlierOfKey(i))
          /\ fs_log[i].path = fs_log[i].folder \o "/part-"
                                \o ZeroPad(ToString(fs_log[i].idx), 5)
                                \o ".parquet"
    /\ \A i, j \in FactEntries :
          (i # j /\ SameKey(fs_log[i], fs_log[j])) => fs_log[i].idx # fs_log[j].idx

\* C1 witness: a second write call has written part-00001 for a key whose
\* part-00000 was written by the first call.
C1_Witness ==
    \E i, j \in FactEntries :
        /\ i < j
        /\ SameKey(fs_log[i], fs_log[j])
        /\ fs_log[i].call = 1 /\ fs_log[j].call = 2
        /\ fs_log[i].path = fs_log[i].folder \o "/part-00000.parquet"
        /\ fs_log[j].path = fs_log[j].folder \o "/part-00001.parquet"

\* the write() calls that returned in the given regime
ReturnedCalls(regime) ==
    {c \in 1..Len(w_outcome) :
        w_outcome[c].result = "returned" /\ w_outcome[c].regime = regime}

\* the positions of w_pulled that belong to call c
PulledOf(c) == {p \in 1..Len(w_pulled) : w_pulled[p].call = c}

\* the positions of fs_log that belong to call c
EntriesOf(c) == {i \in 1..Len(fs_log) : fs_log[i].call = c}

\* the batch at position p of w_pulled has a row of the key
BatchHasKey(p, key) == \E r \in 1..Len(w_pulled[p].rows) : w_pulled[p].rows[r].key = key

\* the files call c wrote for the key
FilesOfKey(c, key) == {i \in EntriesOf(c) : fs_log[i].key = key}

\* C2 as stated: in the fact regime one write call produces exactly one file
\* per distinct partition key of its batch stream, however many batches hold
\* rows of that key.
C2_OneFilePerKeyPerCall ==
    \A c \in ReturnedCalls("fact") :
        \A key \in KeysOf(w_outcome[c].table) :
            (\E p \in PulledOf(c) : BatchHasKey(p, key))
                => Cardinality(FilesOfKey(c, key)) = 1

\* C2 amended: a fact-regime write call that returns has written, for every
\* batch of its stream, exactly one file per distinct partition key of that
\* batch: a key that occurs in k batches of the stream gets k files.
C2_OneFilePerKeyPerBatch ==
    \A c \in ReturnedCalls("fact") :
        \A key \in KeysOf(w_outcome[c].table) :
            /\ \A p \in PulledOf(c) :
                  Cardinality({i \in FilesOfKey(c, key) :
                                  fs_log[i].batch = w_pulled[p].batch})
                      = IF BatchHasKey(p, key) THEN 1 ELSE 0
            /\ Cardinality(FilesOfKey(c, key))
                  = Cardinality({p \in PulledOf(c) : BatchHasKey(p, key)})

\* C2 witness: a call that returned wrote two files for a key that occurs in
\* two batches of its stream.
C2_Witness ==
    \E c \in ReturnedCalls("fact") :
        \E key \in KeysOf(w_outcome[c].table) :
            /\ Cardinality({p \in PulledOf(c) : BatchHasKey(p, key)}) = 2
            /\ Cardinality(FilesOfKey(c, key)) = 2

\* every write() call so far has returned, and none is in progress
AllReturned ==
    /\ w_pc = "ready"
    /\ \A c \in 1..Len(w_outcome) : w_outcome[c].result = "returned"

\* the partition keys seen in the input of the fact-regime writes of a table
SeenKeys(table) ==
    {DictKey(key) : key \in {k \in KeysOf(table) :
        \E p \in 1..Len(w_pulled) :
            /\ w_outcome[w_pulled[p].call].table = table
            /\ w_outcome[w_pulled[p].call].regime = "fact"
            /\ BatchHasKey(p, k)}}

\* the partition folders written under root/table
FoldersOf(table) ==
    {fs_log[i].folder : i \in {j \in FactEntries : fs_log[j].table = table}}

\* C3 as stated: after any sequence of fact-regime writes the partition
\* folders of a table correspond one-to-one to the distinct partition keys
\* seen in the input: every key has its folder, no other folder exists, and
\* two distinct keys never share a folder.
C3_FoldersMatchKeys ==
    AllReturned =>
        /\ fs_dirs = {fs_log[i].folder : i \in 1..Len(fs_log)}
        /\ \A table \in WriterTables :
              /\ \A key \in SeenKeys(table) :
                    \E i \in FactEntries :
                        /\ fs_log[i].table = table
                        /\ DictKey(fs_log[i].key) = key
                        /\ fs_log[i].folder \in fs_dirs
              /\ Cardinality(FoldersOf(table)) = Cardinality(SeenKeys(table))
        /\ \A i, j \in FactEntries :
              (fs_log[i].table = fs_log[j].table
                  /\ DictKey(fs_log[i].key) # DictKey(fs_log[j].key))
                  => fs_log[i].folder # fs_log[j].folder

\* the last write() call raised, and no other call has begun
AfterFailure ==
    /\ w_pc = "ready"
    /\ Len(w_outcome) > 0
    /\ w_outcome[Len(w_outcome)].result = "raised"

\* the files written by the call that ended last
LastCallEntries == {i \in 1..Len(fs_log) : i > w_call.log0}

\* the counter of a key, and its value when the last call began
CounterNow(table, key) == DictGet(partition_counters, <<table, DictKey(key)>>, 0)
CounterAtCallStart(table, key) == DictGet(w_call.counters0, <<table, DictKey(key)>>, 0)

\* the number of partition groups of a batch
GroupCount(rows) == Cardinality({rows[r].key : r \in 1..Len(rows)})

\* C4 as stated: when persisting one partition group fails during a
\* fact-regime write call, every group persisted earlier in that call stays
\* on disk with its counter advanced by one, the counter of the failing
\* group's key is unchanged, no later group of the batch and no later batch is
\* written or pulled, and the error reaches the caller unmodified.
C4_FailureKeepsEarlierGroups ==
    AfterFailure =>
        LET failed == w_outcome[Len(w_outcome)]
            table == w_call.table
            written(key) == {i \in LastCallEntries : fs_log[i].key = key}
            last_pulled == w_pulled[Len(w_pulled)]
        IN  /\ \A i \in LastCallEntries :
                  /\ fs_log[i].path \in DOMAIN fs_files
                  /\ fs_files[fs_log[i].path] = fs_log[i].rows
            /\ \A key \in KeysOf(table) :
                  CounterNow(table, key)
                      = CounterAtCallStart(table, key) + Cardinality(written(key))
            /\ CounterNow(table, failed.key) = failed.idx
            /\ w_call.batch = failed.batch
            /\ last_pulled.call = w_call.n /\ last_pulled.batch = failed.batch
            /\ Cardinality({i \in LastCallEntries : fs_log[i].batch = failed.batch})
                  = GroupCount(last_pulled.rows) - failed.left
            /\ \A i \in LastCallEntries : fs_log[i].key = failed.key
                  => fs_log[i].batch < failed.batch
            /\ failed.raised = failed.fault

RECURSIVE RowsBefore(_, _)
\* the number of rows call c pulled in its batches 1 .. b
RowsBefore(c, b) ==
    IF b = 0 THEN 0
    ELSE RowsBefore(c, b - 1)
         + Len((CHOOSE q \in {w_pulled[p] : p \in PulledOf(c)} : q.batch = b).rows)

\* the file holds the rows of all batches call c pulled, in stream order
HoldsAllBatches(rows, c) ==
    /\ Len(rows) = RowsBefore(c, Cardinality(PulledOf(c)))
    /\ \A p \in PulledOf(c) :
          \A r \in 1..Len(w_pulled[p].rows) :
              rows[RowsBefore(c, w_pulled[p].batch - 1) + r] = w_pulled[p].rows[r]

\* the one file of a dimension-regime call
IsSingleFileOf(i, c) ==
    /\ fs_log[i].path = "root/" \o w_outcome[c].table \o "/"
                          \o w_outcome[c].table \o ".parquet"
    /\ HoldsAllBatches(fs_log[i].rows, c)
    /\ (\A j \in 1..Len(fs_log) : j > i => fs_log[j].path # fs_log[i].path)
          => (fs_log[i].path \in DOMAIN fs_files
              /\ fs_files[fs_log[i].path] = fs_log[i].rows)

\* C5 as stated: with no partition spec one write call produces exactly one
\* file, root/table/table.parquet, holding the concatenation of all supplied
\* batches in stream order, for every number of batches, zero included.
C5_AlwaysOneFile ==
    \A c \in ReturnedCalls("dimension") :
        /\ Cardinality(EntriesOf(c)) = 1
        /\ \A i \in EntriesOf(c) : IsSingleFileOf(i, c)

\* C5 amended: with no partition spec a write call whose stream supplies at
\* least one batch produces exactly one file, root/table/table.parquet, holding
\* the concatenation of all supplied batches in stream order; a call whose
\* stream supplies no batch writes no file.
C5_OneFileUnlessEmpty ==
    \A c \in ReturnedCalls("dimension") :
        IF PulledOf(c) = {}
        THEN EntriesOf(c) = {}
        ELSE /\ Cardinality(EntriesOf(c)) = 1
             /\ \A i \in EntriesOf(c) : IsSingleFileOf(i, c)

\* C5 witness: a dimension-regime call that pulled two batches has written
\* its one file, and it is the file on disk.
C5_Witness ==
    \E c \in ReturnedCalls("dimension") :
        /\ Cardinality(PulledOf(c)) = 2
        /\ \E i \in EntriesOf(c) :
              /\ Len(fs_log[i].rows) >= 2
              /\ fs_files[fs_log[i].path] = fs_log[i].rows

RECURSIVE AppendSegments(_, _)
\* prefix/segment1/segment2/...
AppendSegments(prefix, segments) ==
    IF Len(segments) = 0 THEN prefix
    ELSE AppendSegments(prefix \o "/" \o Head(segments), Tail(segments))

\* the segment the layout prescribes for an integer or a string value
LayoutSegment(col, value) ==
    IF value.t = "int"
    THEN IF col \in {"month", "day"}
         THEN col \o "=" \o ZeroPad(ToString(value.n), 2)
         ELSE col \o "=" \o ToString(value.n)
    ELSE col \o "=" \o value.s

BatchPersisted == w_pc = "partitioned" /\ w_call.batch >= 1

\* the files written for the batch pulled last, in write order
FilesOfLastBatch ==
    SelectSeq(fs_log, LAMBDA e : e.call = w_call.n /\ e.batch = w_call.batch)

\* C23: once a batch of a fact-regime write is persisted, its files partition
\* its rows: there is one file per key in the order the keys first appear,
\* each file lies in the folder of its key and holds the rows of that key in
\* input order, and every row of the batch is on disk in exactly one of the
\* files, the file of its own key.
C23_FilesPartitionTheBatch ==
    BatchPersisted =>
        LET batch == w_pulled[Len(w_pulled)].rows
            keys == FirstSeen(batch, {})
            files == FilesOfLastBatch
        IN  /\ Len(files) = Len(keys)
            /\ \A g \in 1..Len(files) :
                  /\ files[g].key = keys[g]
                  /\ files[g].rows = RowsOf(batch, keys[g])
                  /\ files[g].folder = Folder(w_call.table, w_call.spec.columns, keys[g])
            /\ \A r \in 1..Len(batch) :
                  {g \in 1..Len(files) :
                        \E k \in 1..Len(fs_files[files[g].path]) :
                            fs_files[files[g].path][k] = batch[r]}
                     = {g \in 1..Len(files) : files[g].key = batch[r].key}

\* the regime a partition_spec argument stands for: dimension for None, fact
\* for a PartitionSpec
RegimeFor(partition_spec) == IF partition_spec.none THEN "dimension" ELSE "fact"

\* C24: write() takes the dimension regime exactly when partition_spec is
\* None and the fact regime for every PartitionSpec, one without columns
\* included: the branch a call is in, the regime every file was written in
\* and the regime every call ended in are the regime of its partition_spec.
C24_RegimeBySpecPresence ==
    /\ w_pc \in {"partitioned", "groups"} => RegimeFor(w_call.spec) = "fact"
    /\ w_pc = "single" => RegimeFor(w_call.spec) = "dimension"
    /\ \A i \in 1..Len(fs_log) : fs_log[i].regime = RegimeFor(SpecOf(fs_log[i].table))
    /\ \A c \in 1..Len(w_outcome) :
          w_outcome[c].regime = RegimeFor(SpecOf(w_outcome[c].table))

\* a call without partition_spec has written its single file, and a call
\* with a PartitionSpec without columns is in _write_partitioned
C24_Witness ==
    /\ \E i \in 1..Len(fs_log) :
          fs_log[i].regime = "dimension" /\ SpecOf(fs_log[i].table).none
    /\ w_pc = "partitioned"
    /\ ~w_call.spec.none
    /\ Len(w_call.spec.columns) = 0

\* the rows of batch b of call c
PulledRows(c, b) ==
    LET p == CHOOSE q \in PulledOf(c) : w_pulled[q].batch = b
    IN  w_pulled[p].rows

\* the files call c has written for its batch b
FilesOfBatch(c, b) == {i \in EntriesOf(c) : fs_log[i].batch = b}

\* the groups of batch b of call c are all written, each counted once in the
\* counter of its key
FullyPersisted(c, b) ==
    Cardinality(FilesOfBatch(c, b)) = GroupCount(PulledRows(c, b))

\* C25: in the fact regime a batch is pulled only when every group of the
\* batches pulled before it is written and counted, the writer holds groups
\* of the batch pulled last only, and a call that returns has written every
\* batch whole; in the dimension regime no file of a call exists while its
\* batches are pulled, the batches pulled are all held, and the single file
\* holds them all.
C25_OneBatchAtATime ==
    /\ w_pc \in {"partitioned", "groups"} =>
          /\ \A b \in 1..(w_call.batch - 1) : FullyPersisted(w_call.n, b)
          /\ w_pc = "partitioned" =>
                /\ w_groups = <<>>
                /\ \A b \in 1..w_call.batch : FullyPersisted(w_call.n, b)
          /\ w_pc = "groups" =>
                /\ Cardinality(FilesOfBatch(w_call.n, w_call.batch)) + Len(w_groups)
                      = GroupCount(PulledRows(w_call.n, w_call.batch))
                /\ \A g \in 1..Len(w_groups) :
                      w_groups[g].subdf
                          = RowsOf(PulledRows(w_call.n, w_call.batch),
                                   NormalisePartitionKey(w_groups[g].key))
          /\ \A key \in KeysOf(w_call.table) :
                CounterNow(w_call.table, key)
                    = CounterAtCallStart(w_call.table, key)
                        + Cardinality(FilesOfKey(w_call.n, key))
    /\ \A c \in ReturnedCalls("fact") :
          \A p \in PulledOf(c) : FullyPersisted(c, w_pulled[p].batch)
    /\ w_pc = "single" =>
          /\ EntriesOf(w_call.n) = {}
          /\ Len(w_frames) = Cardinality(PulledOf(w_call.n))
          /\ \A b \in 1..Len(w_frames) : w_frames[b] = PulledRows(w_call.n, b)
    /\ \A c \in ReturnedCalls("dimension") :
          \A i \in EntriesOf(c) :
              fs_log[i].rows
                  = Concat([b \in 1..Cardinality(PulledOf(c)) |-> PulledRows(c, b)])

\* a fact-regime call has pulled its second batch, the group of its first
\* batch written and counted, the group of the second not yet written
C25_Witness ==
    /\ w_pc = "groups"
    /\ w_call.batch = 2
    /\ FullyPersisted(w_call.n, 1)
    /\ Len(w_groups) = 1
    /\ FilesOfBatch(w_call.n, 2) = {}

-----------------------------------------------------------------------------
(* Properties of write_dataset.                                            *)

\* the positions of pd_events of one kind
EventsOf(kind) == {a \in 1..Len(pd_events) : pd_events[a].kind = kind}

\* C7: write_dataset calls writer.write for the selected tables in sequence
\* order (generator.tables() order by default), each call with the batch
\* stream, schema and partition spec the generator returned for that table;
\* the write of table i has returned before batches_for is called for table
\* i+1, and an error raised for a table ends the run: no later call is made.
C7_TableByTable ==
    /\ (pd_pc \notin {"off", "idle"} /\ pd_tables.none)
          => pd_selected = <<"customers", "products", "orders", "order_items">>
    /\ \A a \in EventsOf("write") :
          LET k == Cardinality({b \in EventsOf("write") : b <= a})
              w == pd_events[a]
          IN  /\ k <= Len(pd_selected)
              /\ w.table = pd_selected[k]
              /\ a > 3
              /\ pd_events[a - 3].kind = "batches_for"
              /\ pd_events[a - 2].kind = "schema_for"
              /\ pd_events[a - 1].kind = "partition_spec_for"
              /\ \A b \in (a - 3)..(a - 1) :
                    pd_events[b].table = w.table /\ pd_events[b].i = w.i
              /\ w.args.batches = pd_events[a - 3].args.batches
              /\ w.args.batches.stream = w.table
              /\ w.args.schema = pd_events[a - 2].args.schema
              /\ w.args.schema.schema = w.table
              /\ w.args.partition_spec = pd_events[a - 1].args.partition_spec
    /\ \A a \in EventsOf("batches_for") :
          pd_events[a].i > 1
              => /\ pd_events[a - 1].kind = "write_return"
                 /\ pd_events[a - 1].i = pd_events[a].i - 1
    /\ \A a \in EventsOf("raise") : a = Len(pd_events) /\ pd_pc = "raised"

\* C7 witness: the first table was written, the write of the second table
\* raised, and the run has ended with two more tables selected.
C7_Witness ==
    /\ pd_pc = "raised"
    /\ Len(pd_selected) = 4
    /\ Len(pd_events) = 10
    /\ pd_events[5].kind = "write_return" /\ pd_events[5].table = "customers"
    /\ pd_events[9].kind = "write" /\ pd_events[9].table = "products"
    /\ pd_events[10].kind = "raise"

\* the number of writer.write calls for a table
WriteCount(table) ==
    Cardinality({a \in EventsOf("write") : pd_events[a].table = table})

\* the sequence holds no name twice
NoDuplicates(seq) == \A m, n \in 1..Len(seq) : m # n => seq[m] # seq[n]

\* C8 as stated: write_dataset calls writer.write exactly once for each table
\* of the requested subset and for no other table, for every subset passed as
\* the tables argument, the empty one included; only when the argument is
\* omitted is every table of generator.tables() written.
C8_ExactlyRequestedSubset ==
    pd_pc = "done" =>
        IF pd_tables.none
        THEN \A table \in TableNames :
                WriteCount(table) = IF table \in Range(GenTables) THEN 1 ELSE 0
        ELSE NoDuplicates(pd_tables.seq) =>
                \A table \in TableNames :
                    WriteCount(table) = IF table \in Range(pd_tables.seq) THEN 1 ELSE 0

-----------------------------------------------------------------------------
(* Properties of the ECommerceGenerator streams.                           *)

\* the traversals of one table, by position in ec_iters
SameTable(i, j) ==
    /\ i \in 1..Len(ec_iters)
    /\ j \in 1..Len(ec_iters)
    /\ i # j
    /\ ec_iters[i].table = ec_iters[j].table

TraversalsOf(table) == {i \in 1..Len(ec_iters) : ec_iters[i].table = table}

\* the rows a traversal has yielded so far, its batches concatenated
RowsYielded(i) == Concat(ec_iters[i].out)

RECURSIVE SumCounts(_)
\* the sum of the counts of a daily count plan
SumCounts(plan) == IF Len(plan) = 0 THEN 0 ELSE Head(plan).count + SumCounts(Tail(plan))

\* C11: over the batches of one order_items traversal the order_item_id
\* values are 1, 2, ..., M in row order: pairwise distinct, contiguous, and
\* not starting again at a batch boundary.
C11_OrderItemIdsNeverReset ==
    \A i \in TraversalsOf("order_items") :
        \A k \in 1..Len(RowsYielded(i)) : RowsYielded(i)[k].order_item_id = k

-----------------------------------------------------------------------------
(* Properties of the ECommerceGenerator constructor.                       *)

\* an Optional argument is given and negative
GivenNegative(opt) == ~opt.none /\ opt.v < 0

\* orders_min and orders_max are both given, orders_min the larger
MinAboveMax(args) ==
    /\ ~args.orders_min.none
    /\ ~args.orders_max.none
    /\ args.orders_min.v > args.orders_max.v

\* a volume parameter the selected mode uses is negative
ModeParameterNegative(args) ==
    \/ args.orders_mode = "fixed" /\ args.orders_per_day < 0
    \/ args.orders_mode = "range" /\ GivenNegative(args.orders_min)
    \/ args.orders_mode = "range" /\ GivenNegative(args.orders_max)

\* the constructor has not accepted the arguments, and no daily count has
\* been sampled
RejectedBeforeSampling == ec_pc \in {"args", "raised"} /\ ec_daily_counts = <<>>

\* C17: the constructor raises, before any daily count is sampled, whenever
\* start_date > end_date, orders_floor < 0, a volume parameter of the
\* selected mode is negative, orders_min > orders_max, orders_std < 0, or
\* orders_mode is not fixed, range or normal.
C17_BadArgumentsRejected ==
    (/\ ec_pc \in {"args", "on", "raised"}
     /\ \/ DateGT(ec_args.start_date, ec_args.end_date)
        \/ ec_args.orders_floor < 0
        \/ ModeParameterNegative(ec_args)
        \/ MinAboveMax(ec_args)
        \/ GivenNegative(ec_args.orders_std)
        \/ ec_args.orders_mode \notin {"fixed", "range", "normal"})
    => RejectedBeforeSampling

\* C17, as the code has it: orders_min > orders_max is an error in range mode
\* and orders_std < 0 in normal mode; in the other modes these arguments are
\* not looked at.
C17_BadArgumentsOfTheModeRejected ==
    (/\ ec_pc \in {"args", "on", "raised"}
     /\ \/ DateGT(ec_args.start_date, ec_args.end_date)
        \/ ec_args.orders_floor < 0
        \/ ModeParameterNegative(ec_args)
        \/ ec_args.orders_mode = "range" /\ MinAboveMax(ec_args)
        \/ ec_args.orders_mode = "normal" /\ GivenNegative(ec_args.orders_std)
        \/ ec_args.orders_mode \notin {"fixed", "range", "normal"})
    => RejectedBeforeSampling

\* the constructor has raised for a range-mode call with orders_min above
\* orders_max
C17_Witness ==
    /\ ec_pc = "raised"
    /\ ec_args.orders_mode = "range"
    /\ MinAboveMax(ec_args)
    /\ ec_daily_counts = <<>>

\* C18: the constructor raises for an orders_partitioning that is not ymd, ym
\* or yearmonth: no instance exists with such a value, and no batch is
\* produced for it.
C18_UnknownPartitioningRejected ==
    (/\ ec_pc \in {"args", "on", "raised"}
     /\ ec_args.orders_partitioning \notin {"ymd", "ym", "yearmonth"})
    => (ec_pc \in {"args", "raised"} /\ ec_iters = <<>>)


\* n * num / 10 in exact arithmetic, truncated to an integer
TruncatedTenths(n, num) ==
    IF n >= 0 THEN (n * num) \div 10 ELSE 0 - (((0 - n) * num) \div 10)

\* C26: after validation an unset orders_min is 0.7 x orders_per_day and an
\* unset orders_max is 1.3 x orders_per_day, truncated, in range mode; an
\* unset orders_mean is orders_per_day and an unset orders_std is
\* max(1, 0.1 x orders_per_day) in normal mode, for every orders_per_day and
\* orders_floor; a value that was given is the value of the instance.
C26_DerivedFromTheRate ==
    ec_pc = "on" =>
        /\ ec_self.orders_mode = "range" =>
              /\ ec_args.orders_min.none =>
                    ec_self.orders_min = TruncatedTenths(ec_args.orders_per_day, 7)
              /\ ec_args.orders_max.none =>
                    ec_self.orders_max = TruncatedTenths(ec_args.orders_per_day, 13)
        /\ ec_self.orders_mode = "normal" =>
              /\ ec_args.orders_mean.none => ec_self.orders_mean = ec_args.orders_per_day
              /\ ec_args.orders_std.none =>
                    ec_self.orders_std = Max2(10, ec_args.orders_per_day)
        /\ ~ec_args.orders_min.none => ec_self.orders_min = ec_args.orders_min.v
        /\ ~ec_args.orders_max.none => ec_self.orders_max = ec_args.orders_max.v
        /\ ~ec_args.orders_mean.none => ec_self.orders_mean = ec_args.orders_mean.v
        /\ ~ec_args.orders_std.none => ec_self.orders_std = ec_args.orders_std.v

\* C26, as the code has it: in range mode an unset orders_min is the larger
\* of orders_floor and int(orders_per_day * 0.7), and an unset orders_max is
\* the larger of orders_min (given or derived) and int(orders_per_day * 1.3),
\* the products being those of double arithmetic; in normal mode an unset
\* orders_mean is orders_per_day and an unset orders_std is
\* max(1, 0.1 x orders_per_day); a value that was given is the value of the
\* instance.
C26_DerivedAndRaised ==
    ec_pc = "on" =>
        /\ ec_self.orders_mode = "range" =>
              /\ ec_args.orders_min.none =>
                    /\ ec_self.orders_min >= ec_args.orders_floor
                    /\ ec_self.orders_min >= IntOfTenths(ec_args.orders_per_day, 7)
                    /\ ec_self.orders_min \in
                          {ec_args.orders_floor, IntOfTenths(ec_args.orders_per_day, 7)}
              /\ ec_args.orders_max.none =>
                    /\ ec_self.orders_max >= ec_self.orders_min
                    /\ ec_self.orders_max >= IntOfTenths(ec_args.orders_per_day, 13)
                    /\ ec_self.orders_max \in
                          {ec_self.orders_min, IntOfTenths(ec_args.orders_per_day, 13)}
        /\ ec_self.orders_mode = "normal" =>
              /\ ec_args.orders_mean.none => ec_self.orders_mean = ec_args.orders_per_day
              /\ ec_args.orders_std.none =>
                    ec_self.orders_std = Max2(10, ec_args.orders_per_day)
        /\ ~ec_args.orders_min.none => ec_self.orders_min = ec_args.orders_min.v
        /\ ~ec_args.orders_max.none => ec_self.orders_max = ec_args.orders_max.v
        /\ ~ec_args.orders_mean.none => ec_self.orders_mean = ec_args.orders_mean.v
        /\ ~ec_args.orders_std.none => ec_self.orders_std = ec_args.orders_std.v

\* a range-mode instance constructed without orders_min and orders_max whose
\* orders_floor is above 1.3 x orders_per_day: both bounds are the floor
C26_Witness ==
    /\ ec_pc = "on"
    /\ ec_self.orders_mode = "range"
    /\ ec_args.orders_min.none
    /\ ec_args.orders_max.none
    /\ ec_args.orders_floor > TruncatedTenths(ec_args.orders_per_day, 13)
    /\ ec_self.orders_min = ec_args.orders_floor
    /\ ec_self.orders_max = ec_args.orders_floor

-----------------------------------------------------------------------------
(* Properties of the DatasetGenerator methods.                             *)

\* the name is one of tables()
KnownTable(table) == table \in Range(TablesOf(gi_generator))

\* C19: on each of the five generators, batches_for raises at the call, with
\* nothing pulled, for a name that is not in tables() and returns an
\* iterable for a name that is; schema_for and partition_spec_for return None
\* for a name that is not in tables().
C19_UnknownTableNames ==
    \A c \in 1..Len(gi_calls) :
        LET call == gi_calls[c]
        IN  /\ (call.method = "batches_for" /\ ~KnownTable(call.table)) =>
                  (call.result = "ValueError" /\ call.raised_at = "call" /\ call.pulled = 0)
            /\ (call.method = "batches_for" /\ KnownTable(call.table)) =>
                  (call.result = "iterable" /\ call.raised_at = "never")
            /\ (call.method \in {"schema_for", "partition_spec_for"}
                    /\ ~KnownTable(call.table)) => call.result = "None"

\* the weather generator was asked for the batches and for the schema of a
\* table of another generator
C19_Witness ==
    /\ gi_generator = "weather"
    /\ Len(gi_calls) = 2
    /\ gi_calls[1] = Call("batches_for", "orders", "ValueError")
    /\ gi_calls[2] = Call("schema_for", "orders", "None")


-----------------------------------------------------------------------------
(* Properties of the market generators.                                    *)

\* self._last_close / self._last_mid is as __post_init__ left it
StateAsConstructed == mk_last = InitialLast(mk_self)

\* the batches two traversals have yielded so far agree position by
\* position, and two finished traversals have yielded equally many
TraversalsAgree ==
    \A i, j \in 1..Len(mk_iters) :
        /\ \A k \in 1..Min2(Len(mk_iters[i].out), Len(mk_iters[j].out)) :
              mk_iters[i].out[k] = mk_iters[j].out[k]
        /\ (mk_iters[i].pc = "done" /\ mk_iters[j].pc = "done")
              => Len(mk_iters[i].out) = Len(mk_iters[j].out)

\* C10: iterating the stream leaves the state of a market generator as the
\* constructor left it, and two traversals of one instance give the same
\* batches in the same order.
C10_IterationLeavesStateUnchanged ==
    mk_pc = "on" => (StateAsConstructed /\ TraversalsAgree)

\* the values of a column over the rows of a batch
OrderIdsOf(batch) == {batch[r].order_id : r \in 1..Len(batch)}

\* C13: the k-th batch of an order_items traversal refers to the orders of
\* the k-th batch of an orders traversal and to no other: every item's
\* order_id is an order of that batch, every order of that batch has an item,
\* and an item carries the partition values of its order; the two streams
\* have equally many batches.
C13_ItemsFollowTheirOrdersBatch ==
    \A i \in TraversalsOf("orders") : \A j \in TraversalsOf("order_items") :
        /\ \A k \in 1..Min2(Len(ec_iters[i].out), Len(ec_iters[j].out)) :
              LET orders == ec_iters[i].out[k]
                  items == ec_iters[j].out[k]
              IN  /\ OrderIdsOf(items) = OrderIdsOf(orders)
                  /\ \A r \in 1..Len(items) : \A o \in 1..Len(orders) :
                        items[r].order_id = orders[o].order_id
                            => items[r].partition = orders[o].partition
        /\ (ec_iters[i].pc = "done" /\ ec_iters[j].pc = "done")
              => Len(ec_iters[i].out) = Len(ec_iters[j].out)

\* an orders traversal and an order_items traversal are both two batches in,
\* and an order of the second batch has more than one item
C13_Witness ==
    \E i \in TraversalsOf("orders") : \E j \in TraversalsOf("order_items") :
        /\ Len(ec_iters[i].out) >= 2
        /\ Len(ec_iters[j].out) >= 2
        /\ Len(ec_iters[j].out[2]) > Len(ec_iters[i].out[2])

\* C14: a traversal of the orders or order_items stream yields non-empty
\* batches only, at most one per planned order, and does not fail: it ends
\* after finitely many batches whatever file_rows_target is.
C14_FinitelyManyNonEmptyBatches ==
    \A i \in TraversalsOf("orders") \cup TraversalsOf("order_items") :
        /\ \A k \in 1..Len(ec_iters[i].out) : Len(ec_iters[i].out[k]) > 0
        /\ Len(ec_iters[i].out) <= SumCounts(ec_daily_counts)
        /\ ec_iters[i].pc # "raised"

\* C15: in range mode every count of the daily count plan lies in
\* [orders_min, orders_max], whatever orders_floor >= 0 is.
C15_RangeCountsWithinBounds ==
    (ec_pc = "on" /\ ec_self.orders_mode = "range") =>
        \A k \in 1..Len(ec_daily_counts) :
            /\ ec_daily_counts[k].count >= ec_self.orders_min
            /\ ec_daily_counts[k].count <= ec_self.orders_max

\* C15, as the code has it: in range mode every count of the plan is the
\* value drawn in [orders_min, orders_max] raised to orders_floor; it lies in
\* [orders_min, orders_max] when orders_floor <= orders_max and is
\* orders_floor otherwise.
C15_RangeCountsRaisedToFloor ==
    (ec_pc = "on" /\ ec_self.orders_mode = "range") =>
        \A k \in 1..Len(ec_daily_counts) :
            /\ ec_daily_counts[k].count >= Max2(ec_self.orders_min, ec_self.orders_floor)
            /\ ec_daily_counts[k].count <= Max2(ec_self.orders_max, ec_self.orders_floor)

\* a range-mode plan whose floor is above orders_max: a count is the floor
C15_Witness ==
    /\ ec_pc = "on"
    /\ ec_self.orders_mode = "range"
    /\ ec_self.orders_floor > ec_self.orders_max
    /\ \E k \in 1..Len(ec_daily_counts) : ec_daily_counts[k].count = ec_self.orders_floor

RECURSIVE DaysBefore(_, _)
\* the days of the year before month m
DaysBefore(y, m) == IF m <= 1 THEN 0 ELSE DaysInMonth(y, m - 1) + DaysBefore(y, m - 1)

\* the number of days in [start, end], both in one year
DaysInclusive(start, end) ==
    (DaysBefore(end.year, end.month) + end.day)
        - (DaysBefore(start.year, start.month) + start.day) + 1

\* C16: the rows of an orders traversal that has ended are as many as the
\* daily count plan says, and in fixed mode the plan says
\* max(orders_floor, orders_per_day) for each day of [start_date, end_date].
C16_VolumeConserved ==
    ec_pc = "on" =>
        /\ ec_self.orders_mode = "fixed" =>
              SumCounts(ec_daily_counts) =
                  Max2(ec_self.orders_floor, ec_self.orders_per_day)
                      * DaysInclusive(ec_self.start_date, ec_self.end_date)
        /\ \A i \in TraversalsOf("orders") :
              ec_iters[i].pc = "done" =>
                  /\ Len(RowsYielded(i)) = SumCounts(ec_daily_counts)
                  /\ ec_self.orders_mode = "fixed" =>
                        Len(RowsYielded(i)) =
                            Max2(ec_self.orders_floor, ec_self.orders_per_day)
                                * DaysInclusive(ec_self.start_date, ec_self.end_date)

\* a fixed-mode orders traversal has ended, its floor above orders_per_day
\* and its rows spread over several batches
C16_Witness ==
    /\ ec_pc = "on"
    /\ ec_self.orders_mode = "fixed"
    /\ ec_self.orders_floor > ec_self.orders_per_day
    /\ \E i \in TraversalsOf("orders") :
          /\ ec_iters[i].pc = "done"
          /\ Len(ec_iters[i].out) >= 2
          /\ Len(RowsYielded(i)) = 2 * ec_self.orders_floor

\* the rows a traversal of a market stream has yielded so far
MarketRowsYielded(i) == Concat(mk_iters[i].out)

\* the quotes one traversal makes: quotes_per_minute for every minute of
\* every symbol-day
QuotesPlanned(self) ==
    LET days == DateRange(self.start_date, self.end_date)
    IN  Len(self.symbols) * self.quotes_per_minute *
            Len(Concat([d \in 1..Len(days) |-> TimestampsForDay(self, days[d])]))

C20_LowBelowHighAbove ==
    (mk_pc = "on" /\ mk_self.kind = "ohlcv") =>
        \A i \in 1..Len(mk_iters) : \A k \in 1..Len(MarketRowsYielded(i)) :
            LET bar == MarketRowsYielded(i)[k].row
            IN  /\ bar.low <= Min2(bar.open, bar.close)
                /\ Max2(bar.open, bar.close) <= bar.high

\* the orders traversals that have yielded a batch after batch k
NotLastBatch(i, k) == k < Len(ec_iters[i].out)

\* C22: in one traversal of the orders stream every batch that is followed
\* by another batch has exactly file_rows_target rows.
C22_OnlyFinalBatchUndersized ==
    \A i \in TraversalsOf("orders") : \A k \in 1..Len(ec_iters[i].out) :
        NotLastBatch(i, k) => Len(ec_iters[i].out[k]) = ec_self.file_rows_target

\* C22, as the code has it: the rows of a batch are orders of one day, a
\* batch has at most file_rows_target rows, and a batch with fewer rows is
\* the last batch of its day: the batch after it, if any, is of another day.
C22_OnlyLastBatchOfDayUndersized ==
    \A i \in TraversalsOf("orders") : \A k \in 1..Len(ec_iters[i].out) :
        LET batch == ec_iters[i].out[k]
        IN  /\ Len(batch) <= ec_self.file_rows_target
            /\ \A r \in 1..Len(batch) : batch[r].order_date = batch[1].order_date
            /\ NotLastBatch(i, k) =>
                  \/ Len(batch) = ec_self.file_rows_target
                  \/ ec_iters[i].out[k + 1][1].order_date # batch[1].order_date

\* an orders traversal whose second batch is undersized and is followed by a
\* full batch of the next day
C22_Witness ==
    \E i \in TraversalsOf("orders") :
        /\ Len(ec_iters[i].out) >= 3
        /\ Len(ec_iters[i].out[1]) = ec_self.file_rows_target
        /\ Len(ec_iters[i].out[2]) < ec_self.file_rows_target
        /\ Len(ec_iters[i].out[3]) = ec_self.file_rows_target
        /\ ec_iters[i].out[3][1].order_date # ec_iters[i].out[2][1].order_date

-----------------------------------------------------------------------------
(* Properties of the SensorsGenerator stream.                              *)

\* C21: two SensorsGenerator instances with equal configuration, in the same
\* or in different processes, produce identical batches: what one has
\* yielded is what the other has yielded or will yield at the same positions.
C21_SameConfigurationSameBatches ==
    \A p, q \in 1..Len(sn_procs) :
        sn_procs[p].self = sn_procs[q].self =>
            \A k \in 1..Min2(Len(sn_procs[p].out), Len(sn_procs[q].out)) :
                sn_procs[p].out[k] = sn_procs[q].out[k]

-----------------------------------------------------------------------------
(* Properties of two writer instances on one destination.                  *)

\* the files instance i wrote for the key before position n of sd_log
OwnEarlier(n) ==
    {m \in 1..(n - 1) : /\ sd_log[m].instance = sd_log[n].instance
                        /\ DictKey(sd_log[m].key) = DictKey(sd_log[n].key)}

\* C27: the sequence number of a file is the number of files the same
\* instance has written for the key before, whatever files are present: the
\* first file each instance writes for a key is part-00000, and the write
\* replaces a file of that name another instance has written.
C27_NumberingIgnoresTheFiles ==
    \A n \in 1..Len(sd_log) :
        /\ sd_log[n].idx = Cardinality(OwnEarlier(n))
        /\ OwnEarlier(n) = {} =>
              sd_log[n].path = Folder(SharedTable, SpecOf(SharedTable).columns,
                                      sd_log[n].key) \o "/part-00000.parquet"
        /\ (\A m \in (n + 1)..Len(sd_log) : sd_log[m].path # sd_log[n].path)
              => sd_files[sd_log[n].path] = sd_log[n].rows

\* the collision: the second instance has written its first file of a key to
\* the part-00000 the first instance wrote, while the first instance's call
\* was still under way, and the first instance's rows are gone
C27_Witness ==
    \E m, n \in 1..Len(sd_log) :
        /\ m < n
        /\ sd_log[m].instance # sd_log[n].instance
        /\ sd_log[m].path = sd_log[n].path
        /\ sd_log[m].idx = 0 /\ sd_log[n].idx = 0
        /\ sd_log[n].existed
        /\ sd_files[sd_log[n].path] = sd_log[n].rows
        /\ sd_log[m].rows # sd_log[n].rows
        /\ sd_writers[sd_log[m].instance].groups # <<>>

\* the rows before position k of a traversal's rows that are of the symbol
\* of row k
EarlierBars(rows, k) == {j \in 1..(k - 1) : rows[j].row.symbol = rows[k].row.symbol}

\* the largest element of a non-empty set of numbers
MaxOf(S) == CHOOSE x \in S : \A y \in S : y <= x

\* the traversal whose body was the first to run on the instance
FirstBegun == {i \in 1..Len(mk_iters) : mk_iters[i].began = 1}

\* C28: in the first traversal of the OHLCV stream of an instance every bar
\* opens at the close of the bar of its symbol before it, across days and
\* batches, and the first bar of a symbol opens at the symbol's base price.
C28_OpenIsPreviousClose ==
    (mk_pc = "on" /\ mk_self.kind = "ohlcv") =>
        \A i \in FirstBegun :
            LET rows == MarketRowsYielded(i)
            IN  \A k \in 1..Len(rows) :
                    rows[k].row.open =
                        IF EarlierBars(rows, k) = {}
                        THEN InitialLast(mk_self)[rows[k].row.symbol]
                        ELSE rows[MaxOf(EarlierBars(rows, k))].row.close

-----------------------------------------------------------------------------
(* Properties of the DeltaLakeWriter.                                      *)

\* the log entry of the start of call c
DeltaCallEntry(c) ==
    dl_log[CHOOSE i \in 1..Len(dl_log) : dl_log[i].kind = "call" /\ dl_log[i].call = c]

\* the calls that have returned
DeltaReturned == {dl_log[i].call : i \in {j \in 1..Len(dl_log) : dl_log[j].kind = "return"}}

\* C29: write never overwrites an existing table: mode "overwrite" is used
\* for the first batch of a call at most and only when there was no table at
\* the start of the call, every other batch is appended, and the batches
\* stored by a call that returned are in the table after every later write.
C29_NeverOverwritesExisting ==
    dl_pc # "off" =>
        \A i \in 1..Len(dl_log) :
            dl_log[i].kind = "batch" =>
                /\ dl_log[i].mode \in {"overwrite", "append"}
                /\ dl_log[i].mode = "overwrite" =>
                       dl_log[i].k = 1 /\ ~DeltaCallEntry(dl_log[i].call).existed
                /\ dl_log[i].call \in DeltaReturned =>
                       <<dl_log[i].call, dl_log[i].k>> \in Range(dl_table.rows)

-----------------------------------------------------------------------------
(* Properties of the IcebergWriter.                                        *)

\* C30: every column type of the schema of every table of every bundled
\* generator has an Iceberg type, so write() given the schema never raises
\* TypeError and creates the table the catalog did not hold; given schema
\* None it raises ValueError without a request to the catalog.
C30_EveryBundledSchemaConverts ==
    ic_pc # "off" =>
        \A i \in 1..Len(ic_log) :
            IF ic_log[i].schema = NoSchema
            THEN ic_log[i].outcome = "ValueError" /\ ic_log[i].requests = <<>>
            ELSE /\ ic_log[i].outcome # "TypeError"
                 /\ ic_log[i].table \in ic_catalog

====
